---- MODULE Spec2Model ----
(***************************************************************************)
(* Conversation pipeline of the language tutoring backend:                 *)
(* backend/app/routes/conversation.py (session store, /speak,              *)
(* /speak-stream, /text-stream, session read and clear) together with the  *)
(* text helpers of backend/app/utils/language.py it calls and the handler  *)
(* objects installed by backend/app/main.py.                               *)
(*                                                                         *)
(* Texts are sequences of one-character strings.  Python lists are heap    *)
(* objects: conversation_sessions maps a session id to the identity of a   *)
(* list, and a request keeps the identity it looked up in `history`.       *)
(* An endpoint runs on the event loop: code between two awaits / yields is *)
(* one atomic step.                                                        *)
(***************************************************************************)
EXTENDS Integers, Sequences, FiniteSets, TLC

\* ------------------------------------------------------------------ bounds
\* spoken and streaming requests accepted in one behaviour
MaxRequests == 2
\* streaming requests in flight at the same time
NumSlots == 2
\* chunks one generate_stream call yields
MaxChunks == 2
\* turns appended in one behaviour of SpecStream
MaxStreamTurns == 2
\* spoken turns run one after another in SpecSeq
MaxSeqTurns == 12
\* segments handed to one synthesize_segments call
MaxSegments == 2
\* pieces a text handed to strip_speech_tags is put together from
MaxTokens == 3
\* tagged spans in a text handed to split_speech_segments
MaxSpans == 2
\* words in an untagged text handed to split_speech_segments
MaxWords == 7
\* turns session "s1" has taken when the concurrent requests of SpecBusy arrive
BusyTurns == 10
\* requests of SpecBusy
MaxBusyRequests == 2

\* ---------------------------------------------------------- program constants
\* conversation.py:525 `if len(history) > 20` / `history[-20:]`
HistoryLimit == 20
\* conversation.py:484 `history[-10:]`
ContextWindow == 10

\* length of the fallback tone in 1/100 s: at least ToneMinDuration, and
\* ToneCharDuration for each character of the text
ToneMinDuration == 50
ToneCharDuration == 8
\* silence between two segments, in 1/100 s
PauseDuration == 16
EXPLANATION_LANGUAGE_CODE == "en"
DEFAULT_TTS_FALLBACK_VOICE == "en_US-lessac-medium"

\* ------------------------------------------------------------------ values
Slots == 1..NumSlots
NoSession == "<none>"
DefaultSession == "default"
SessionArgs == {NoSession, "s1"}
SessionIds == {DefaultSession, "s1"}
NoList == 0
ListIds == 1..(Cardinality(SessionIds) + NumSlots + 1)

\* what the STT engine can return as transcription["text"]
Transcripts == {<<>>, <<" ">>, <<"h">>}
\* what the LLM engine can yield as one chunk
ChunkSet == {<<"[", "T", "L", "]">>, <<"a">>}

NoSpeechMessage ==
    "No speech detected in audio. Please try speaking louder or closer to the microphone."

\* ------------------------------------------------------------ text helpers
IsSpace(c) == c = " "

Upper(c) ==
    CASE c = "e" -> "E"
      [] c = "n" -> "N"
      [] c = "t" -> "T"
      [] c = "l" -> "L"
      [] OTHER -> c

RECURSIVE LStrip(_)
LStrip(t) == IF t # <<>> /\ IsSpace(Head(t)) THEN LStrip(Tail(t)) ELSE t

RECURSIVE RStrip(_)
RStrip(t) ==
    IF t # <<>> /\ IsSpace(t[Len(t)]) THEN RStrip(SubSeq(t, 1, Len(t) - 1)) ELSE t

\* str.strip()
Strip(t) == RStrip(LStrip(t))

\* re.sub(r"\s+", " ", text): every run of whitespace becomes one space
RECURSIVE CollapseSpaces(_)
CollapseSpaces(t) ==
    IF t = <<>> THEN <<>>
    ELSE IF IsSpace(Head(t))
         THEN <<" ">> \o CollapseSpaces(LStrip(t))
         ELSE <<Head(t)>> \o CollapseSpaces(Tail(t))

\* deviation: the ends are trimmed, runs of whitespace stay
TrimOnly(t) == Strip(t)

clean_segment_text(t) == Strip(CollapseSpaces(t))

IsTagName(a, b) ==
    \/ Upper(a) = "E" /\ Upper(b) = "N"
    \/ Upper(a) = "T" /\ Upper(b) = "L"

\* length of a match of \[/?(?:EN|TL)\] (IGNORECASE) at the head of t, or 0
MarkerLen(t) ==
    IF Len(t) >= 4 /\ t[1] = "[" /\ IsTagName(t[2], t[3]) /\ t[4] = "]" THEN 4
    ELSE IF Len(t) >= 5 /\ t[1] = "[" /\ t[2] = "/" /\ IsTagName(t[3], t[4])
                        /\ t[5] = "]" THEN 5
    ELSE 0

\* re.sub(r"\[/?(?:EN|TL)\]", "", text, flags=re.IGNORECASE)
RECURSIVE RemoveMarkers(_)
RemoveMarkers(t) ==
    IF t = <<>> THEN <<>>
    ELSE IF MarkerLen(t) > 0
         THEN RemoveMarkers(SubSeq(t, MarkerLen(t) + 1, Len(t)))
         ELSE <<Head(t)>> \o RemoveMarkers(Tail(t))

strip_speech_tags(t) ==
    IF t = <<>> THEN <<>> ELSE clean_segment_text(RemoveMarkers(t))

\* str.lower() on the letters that occur in the texts of the model
Lower(c) ==
    CASE c = "E" -> "e"
      [] c = "N" -> "n"
      [] c = "T" -> "t"
      [] c = "L" -> "l"
      [] c = "H" -> "h"
      [] OTHER -> c

\* the characters [a-zA-Z'] of the word pattern of _looks_like_english
IsWordChar(c) ==
    Lower(c) \in {"a", "b", "c", "d", "e", "f", "g", "h", "i", "j", "k", "l", "m",
                  "n", "o", "p", "q", "r", "s", "t", "u", "v", "w", "x", "y", "z",
                  "'"}

ENGLISH_HINT_WORDS ==
    {<<"a">>, <<"a", "n">>, <<"a", "n", "d">>, <<"a", "r", "e">>, <<"d", "o">>,
     <<"f", "o", "r">>, <<"f", "r", "o", "m">>, <<"h", "a", "v", "e">>,
     <<"h", "o", "w">>, <<"i">>, <<"i", "n">>, <<"i", "s">>, <<"i", "t">>,
     <<"m", "y">>, <<"o", "f">>, <<"o", "n">>,
     <<"p", "l", "e", "a", "s", "e">>, <<"t", "h", "e">>, <<"t", "h", "i", "s">>,
     <<"t", "o">>, <<"w", "e">>, <<"w", "h", "a", "t">>,
     <<"w", "h", "e", "r", "e">>, <<"y", "o", "u">>, <<"y", "o", "u", "r">>}

\* the word of [a-zA-Z']+ at the head of t, lower-cased
RECURSIVE HeadWord(_)
HeadWord(t) ==
    IF t # <<>> /\ IsWordChar(Head(t))
    THEN <<Lower(Head(t))>> \o HeadWord(Tail(t))
    ELSE <<>>

\* re.findall(r"[a-zA-Z']+", text.lower())
RECURSIVE FindWords(_)
FindWords(t) ==
    IF t = <<>> THEN <<>>
    ELSE IF IsWordChar(Head(t))
         THEN <<HeadWord(t)>> \o FindWords(SubSeq(t, Len(HeadWord(t)) + 1, Len(t)))
         ELSE FindWords(Tail(t))

\* deviation: one hint word is enough
AnyHintWord(t) ==
    \E i \in DOMAIN FindWords(t) : FindWords(t)[i] \in ENGLISH_HINT_WORDS

looks_like_english(t) ==
    LET words == FindWords(t)
        hint_hits == Cardinality({i \in DOMAIN words : words[i] \in ENGLISH_HINT_WORDS})
        third == Len(words) \div 3
    IN  /\ words # <<>>
        /\ hint_hits >= (IF third > 2 THEN third ELSE 2)

\* the language given to text that carries no tag
GuessedLanguage(t, target_language, explanation_language) ==
    IF target_language # explanation_language /\ looks_like_english(t)
    THEN explanation_language
    ELSE target_language

\* \[(EN|TL)\] (IGNORECASE) at position p of t
IsOpenTag(t, p) ==
    /\ Len(t) >= p + 3
    /\ t[p] = "[" /\ IsTagName(t[p + 1], t[p + 2]) /\ t[p + 3] = "]"

\* match.group(1).upper() of the tag that opens at position p
TagAt(t, p) == IF Upper(t[p + 1]) = "E" THEN "EN" ELSE "TL"

\* \[/\1\] (IGNORECASE) at position q of t, for the tag that opened
IsCloseTag(t, q, tag) ==
    /\ Len(t) >= q + 4
    /\ t[q] = "[" /\ t[q + 1] = "/" /\ t[q + 4] = "]"
    /\ IsTagName(t[q + 2], t[q + 3])
    /\ (IF Upper(t[q + 2]) = "E" THEN "EN" ELSE "TL") = tag

\* the positions at which the span that opens at p can close
ClosePositions(t, p) == {q \in (p + 4)..Len(t) : IsCloseTag(t, q, TagAt(t, p))}

\* SPEECH_TAG_PATTERN matches at p: (.*?) takes the nearest closing tag
MatchesAt(t, p) == IsOpenTag(t, p) /\ ClosePositions(t, p) # {}

MatchAt(t, p) ==
    LET q == CHOOSE c \in ClosePositions(t, p) : \A o \in ClosePositions(t, p) : c <= o
    IN  [start |-> p, tag |-> TagAt(t, p), content |-> SubSeq(t, p + 4, q - 1),
         end |-> q + 5]

\* SPEECH_TAG_PATTERN.finditer(text) from position p on: the matches, left to
\* right, none overlapping another
RECURSIVE FindIter(_, _)
FindIter(t, p) ==
    IF p > Len(t) THEN <<>>
    ELSE IF MatchesAt(t, p)
         THEN <<MatchAt(t, p)>> \o FindIter(t, MatchAt(t, p).end)
         ELSE FindIter(t, p + 1)

\* str.lower() on the language codes, styles, difficulties and intensities the
\* requests of the model carry
LowerWord(w) ==
    CASE w = "ES" -> "es"
      [] w = "EN" -> "en"
      [] w = "MALE" -> "male"
      [] w = "Female" -> "female"
      [] w \in {"BEGINNER", "Beginner"} -> "beginner"
      [] w = "Intermediate" -> "intermediate"
      [] w = "ADVANCED" -> "advanced"
      [] w = "LIGHT" -> "light"
      [] w = "Deep" -> "deep"
      [] w = "Standard" -> "standard"
      [] OTHER -> w

Segment(text, language) == [text |-> text, language |-> language]

\* the segment of the untagged text t, none when t is blank
UntaggedSegment(t, target_language, explanation_language) ==
    IF clean_segment_text(t) = <<>> THEN <<>>
    ELSE <<Segment(clean_segment_text(t),
                   GuessedLanguage(clean_segment_text(t), target_language,
                                   explanation_language))>>

\* deviation: every span is read in the target language
TargetOnlySegment(m, target_language, explanation_language) ==
    IF clean_segment_text(m.content) = <<>> THEN <<>>
    ELSE <<Segment(clean_segment_text(m.content), target_language)>>

\* the segment of the match m, none when its content is blank
TaggedSegment(m, target_language, explanation_language) ==
    IF clean_segment_text(m.content) = <<>> THEN <<>>
    ELSE <<Segment(clean_segment_text(m.content),
                   IF m.tag = "EN" THEN explanation_language ELSE target_language)>>

\* the loop over the matches and the tail after the last one
RECURSIVE SegmentsFrom(_, _, _, _, _)
SegmentsFrom(t, matches, cursor, target_language, explanation_language) ==
    IF matches = <<>>
    THEN IF cursor <= Len(t)
         THEN UntaggedSegment(SubSeq(t, cursor, Len(t)), target_language,
                              explanation_language)
         ELSE <<>>
    ELSE LET m == Head(matches)
         IN  (IF m.start > cursor
              THEN UntaggedSegment(SubSeq(t, cursor, m.start - 1), target_language,
                                   explanation_language)
              ELSE <<>>)
             \o TaggedSegment(m, target_language, explanation_language)
             \o SegmentsFrom(t, Tail(matches), m.end, target_language,
                             explanation_language)

\* the segments carry the lower-cased language codes
split_speech_segments(t, target_language, explanation_language) ==
    LET normalized_target == LowerWord(target_language)
        normalized_explanation == LowerWord(explanation_language)
    IN  IF t = <<>> THEN <<>>
        ELSE IF FindIter(t, 1) = <<>>
             THEN UntaggedSegment(t, normalized_target, normalized_explanation)
             ELSE SegmentsFrom(t, FindIter(t, 1), 1, normalized_target,
                               normalized_explanation)

\* _prepare_speech_response(...)["response"]: `strip_speech_tags(s) or s`
clean_response(t) ==
    IF strip_speech_tags(t) # <<>> THEN strip_speech_tags(t) ELSE t

\* deviation: `not user_text` alone, without the strip() test
IsEmptyTranscript(t) == t = <<>>

\* `not user_text or not user_text.strip()`
IsBlankTranscript(t) == t = <<>> \/ Strip(t) = <<>>

RECURSIVE Concat(_)
Concat(chunks) ==
    IF chunks = <<>> THEN <<>> ELSE Head(chunks) \o Concat(Tail(chunks))

LastN(s, n) == IF Len(s) <= n THEN s ELSE SubSeq(s, Len(s) - n + 1, Len(s))

\* ------------------------------------------------------------------- state
VARIABLES
    stt_handler,            \* app.state.stt_handler: "none" or "STTHandler"
    tts_handler,            \* app.state.tts_handler: "none" or "TTSHandler"
    llm_handler,            \* app.state.llm_handler: "none", "LLMHandler", "StreamingLLM"
    conversation_sessions,  \* session id -> identity of its message list, or NoList
    heap,                   \* list identity -> the messages of that list object
    req,                    \* slot -> the streaming request whose generator runs in it
    turns,                  \* session id -> number of turns ever appended for it
    response                \* what the step just taken returned to its caller,
                            \* when it was a non-streaming endpoint

vars == <<stt_handler, tts_handler, llm_handler, conversation_sessions, heap, req, turns,
          response>>

\* no non-streaming endpoint returned in the step just taken; `engine` tells
\* how the call into the language-model engine went, if one was made
\* ("returned", "failed"); `input` and `output` hold the arguments and the
\* result of a call that works on no session; `temp` tells
\* whether a temporary file the endpoint made is still on disk ("file")
NoResponse ==
    [op |-> "none", asked |-> NoSession, status |-> 0, session_id |-> NoSession,
     messages |-> <<>>, text |-> <<>>, user_text |-> <<>>, wrote |-> 0,
     temp |-> "none", calls |-> {}, engine |-> "none",
     input |-> [op |-> "none"], output |-> [op |-> "none"],
     llm_messages |-> <<>>]

\* a slot no generator runs in; `calls` names the collaborators the request has
\* called ("stt", "llm"); `temp` tells whether the temporary file made for
\* the request of the slot is on disk ("file") or not ("none")
IdleRequest ==
    [kind |-> "none", pc |-> "idle", session_id |-> NoSession, user_text |-> <<>>,
     history |-> NoList, full_response |-> <<>>, yielded |-> <<>>, events |-> <<>>,
     heard |-> FALSE, asked |-> 0, gone |-> FALSE, wrote |-> 0, temp |-> "none",
     calls |-> {}, messages |-> <<>>, llm_messages |-> <<>>]

\* positions at which a generator is suspended in a `yield`
YieldPcs == {"y_start", "y_transcription", "y_response_start", "y_chunk",
             "y_complete", "y_error"}
InFlight(q) == q.pc \in YieldPcs \cup {"new"}

\* the slot a new streaming request takes: the lowest one that is idle
FreeSlot(r) == ~InFlight(req[r]) /\ \A o \in Slots : o < r => InFlight(req[o])

\* a ConversationMessage; n numbers the turn that created it and `by` is the
\* session_id form value of the request that created it
Message(role, content, n, by) ==
    [role |-> role, content |-> content, n |-> n, by |-> by]

\* ------------------------------------------------------------ list objects
Referenced(st, rq) ==
    ({st[s] : s \in SessionIds} \cup {rq[r].history : r \in Slots}) \ {NoList}

\* identity given to a list created now: `[]` or `history[-20:]`
NewList(st, rq) ==
    CHOOSE l \in ListIds \ Referenced(st, rq) :
        \A o \in ListIds \ Referenced(st, rq) : l <= o

\* lists nothing refers to any more are reclaimed
Collect(hp, st, rq) ==
    [l \in ListIds |-> IF l \in Referenced(st, rq) THEN hp[l] ELSE <<>>]

\* what is stored under a session id (a missing key reads as no messages)
Stored(s) ==
    IF conversation_sessions[s] = NoList THEN <<>> ELSE heap[conversation_sessions[s]]

\* -------------------------------------------------------- session handling
\* deviation: the session_id form value is ignored
AlwaysDefaultSession(arg) == DefaultSession

\* `if not session_id: session_id = "default"`
ResolveSessionId(arg) == IF arg = NoSession THEN DefaultSession ELSE arg

\* `if session_id not in conversation_sessions: conversation_sessions[session_id] = []`
\* followed by `history = conversation_sessions[session_id]`
EnsureSession(st, rq, sid) ==
    IF st[sid] = NoList THEN [st EXCEPT ![sid] = NewList(st, rq)] ELSE st

\* deviation: the list is cut one turn late
NeedsTrimLate(list) == Len(list) > HistoryLimit + 2

\* `if len(history) > 20`
NeedsTrim(list) == Len(list) > HistoryLimit

\* deviation: `history[:20]`, the oldest messages are kept
OldestKept(list) == SubSeq(list, 1, HistoryLimit)

\* `history[-20:]`
TrimmedHistory(list) == LastN(list, HistoryLimit)

\* the two `history.append(...)` calls
TurnMessages(user_text, reply, n, by) ==
    <<Message("user", user_text, n, by),
      Message("assistant", clean_response(reply), n, by)>>

\* the text format_system_prompt returns, as one token
SystemPrompt == <<"system_prompt">>

\* an entry of the `messages` list handed to the language model; n is the
\* turn of the stored message it was copied from, 0 for the system prompt
\* and for the text of the running turn
LlmMessage(role, content, n) == [role |-> role, content |-> content, n |-> n]

\* deviation: every stored message goes into the context
WholeHistory(history) == history

\* `history[-10:]`
recent_history(history) == LastN(history, ContextWindow)

\* "Build messages for LLM": the system prompt, the recent history, the
\* current user message
build_messages(history, user_text) ==
    <<LlmMessage("system", SystemPrompt, 0)>>
    \o [i \in DOMAIN recent_history(history) |->
           LlmMessage(recent_history(history)[i].role,
                      recent_history(history)[i].content,
                      recent_history(history)[i].n)]
    \o <<LlmMessage("user", user_text, 0)>>

\* number given to the next turn appended for a session
NextTurn(sid) == turns[sid] + 1

\* "Update session history": append in place to the list `h`, then, when it is
\* too long, bind the session id to a new list holding the last 20.
\* Gives the heap and the session mapping after the update.
UpdateHistory(hp, st, rq, sid, h, msgs) ==
    LET grown == hp[h] \o msgs
        hp1 == [hp EXCEPT ![h] = grown]
        fresh == NewList(st, rq)
    IN  IF NeedsTrim(grown)
        THEN [heap |-> [hp1 EXCEPT ![fresh] = TrimmedHistory(grown)],
              sessions |-> [st EXCEPT ![sid] = fresh]]
        ELSE [heap |-> hp1, sessions |-> st]

\* ------------------------------------------------------------------- Init
\* lifespan(): each handler is the constructed object, or None when its
\* constructor raised; StreamingLLM is a handler that offers generate_stream
HandlersInit ==
    /\ stt_handler \in {"none", "STTHandler"}
    /\ tts_handler = "TTSHandler"
    /\ llm_handler \in {"none", "LLMHandler", "StreamingLLM"}

Init ==
    /\ HandlersInit
    /\ conversation_sessions = [s \in SessionIds |-> NoList]
    /\ heap = [l \in ListIds |-> <<>>]
    /\ req = [r \in Slots |-> IdleRequest]
    /\ turns = [s \in SessionIds |-> 0]
    /\ response = NoResponse

\* ---------------------------------------------------------------- /speak
\* canned text LLMHandler.generate returns when create_chat_completion raises
FallbackReply == <<"f">>

\* outcome of a call into a collaborator: it raised, or it returned `value`
Raised == [raised |-> TRUE, value |-> <<>>]
Returned(v) == [raised |-> FALSE, value |-> v]
SttOutcomes == {Raised} \cup {Returned(t) : t \in Transcripts}

\* how the engine call went, as recorded with a response
EngineOutcome(out) == IF out.raised THEN "failed" ELSE "returned"

\* LLMHandler.generate returns the canned text when the engine is not loaded
\* (self.model is None) or when create_chat_completion raises; another
\* collaborator lets the exception through
GenerateResult(out) ==
    IF out.raised /\ llm_handler = "LLMHandler" THEN Returned(FallbackReply) ELSE out

\* deviation: only the STT handler is looked at
MissingSttOnly(op) == stt_handler = "none"

\* `if stt_handler is None` / `if llm_handler is None` at the head of an
\* endpoint: the handlers the endpoint `op` needs
MissingHandler(op) ==
    \/ op \in {"speak", "speak_stream", "transcribe"} /\ stt_handler = "none"
    \/ op \in {"speak", "speak_stream", "text", "text_stream"} /\ llm_handler = "none"

\* HTTPException(status_code=...) leaving the handler
HttpError(op, arg, code) ==
    [NoResponse EXCEPT !.op = op, !.asked = arg, !.status = code]

\* how saving the upload goes: `await audio.read()` and `temp_file.write`
Uploads == {"ok", "read_fails", "write_fails"}

\* The whole non-streaming handler.  `await audio.read()` is its only await and
\* comes before the session is touched, so the rest runs as one step.  The
\* temporary file is created (delete=False) before the read; the try/finally
\* that unlinks it starts after the write.
\*   upload: how saving the upload goes;  stt: outcome of
\*   stt_handler.transcribe;  out: outcome of the engine call
speak_and_respond(arg, upload, stt, out) ==
    LET sid == ResolveSessionId(arg)
        st1 == EnsureSession(conversation_sessions, req, sid)
        h == st1[sid]
        gen == GenerateResult(out)
        n == NextTurn(sid)
        msgs == TurnMessages(stt.value, gen.value, n, arg)
        upd == UpdateHistory(heap, st1, req, sid, h, msgs)
    IN  /\ UNCHANGED <<stt_handler, tts_handler, llm_handler, req>>
        /\ IF MissingHandler("speak")
           THEN /\ response' = HttpError("speak", arg, 503)
                /\ UNCHANGED <<conversation_sessions, heap, turns>>
           ELSE IF upload # "ok"
           THEN /\ response' = [HttpError("speak", arg, 500) EXCEPT !.temp = "file"]
                /\ UNCHANGED <<conversation_sessions, heap, turns>>
           ELSE IF stt.raised
           THEN /\ response' = [HttpError("speak", arg, 500) EXCEPT !.calls = {"stt"}]
                /\ UNCHANGED <<conversation_sessions, heap, turns>>
           ELSE IF gen.raised
           THEN \* the session entry was already created when generate raised
                /\ response' = [HttpError("speak", arg, 500)
                                    EXCEPT !.calls = {"stt", "llm"},
                                           !.engine = EngineOutcome(out),
                                           !.llm_messages =
                                               build_messages(heap[h], stt.value)]
                /\ conversation_sessions' = st1
                /\ heap' = Collect(heap, st1, req)
                /\ UNCHANGED turns
           ELSE /\ response' = [NoResponse EXCEPT !.op = "speak", !.asked = arg,
                                                  !.status = 200,
                                                  !.text = clean_response(gen.value),
                                                  !.user_text = stt.value,
                                                  !.wrote = n,
                                                  !.calls = {"stt", "llm"},
                                                  !.engine = EngineOutcome(out),
                                                  !.llm_messages =
                                                      build_messages(heap[h], stt.value)]
                /\ conversation_sessions' = upd.sessions
                /\ heap' = Collect(upd.heap, upd.sessions, req)
                /\ turns' = [turns EXCEPT ![sid] = n]

\* ------------------------------------------------------------------ /text
\* text_conversation: no session is involved, the history comes in the request
text_conversation(message, out) ==
    LET gen == GenerateResult(out)
    IN  /\ response' =
              IF MissingHandler("text") THEN HttpError("text", NoSession, 503)
              ELSE IF gen.raised
              THEN [HttpError("text", NoSession, 500)
                       EXCEPT !.calls = {"llm"}, !.engine = EngineOutcome(out)]
              ELSE [NoResponse EXCEPT !.op = "text", !.status = 200,
                                      !.text = clean_response(gen.value),
                                      !.user_text = message, !.calls = {"llm"},
                                      !.engine = EngineOutcome(out)]
        /\ UNCHANGED <<stt_handler, tts_handler, llm_handler, conversation_sessions, heap, req,
                       turns>>

\* ------------------------------------------------------------ /transcribe
transcribe_audio(upload, stt) ==
    /\ response' =
          IF MissingHandler("transcribe")
          THEN HttpError("transcribe", NoSession, 503)
          ELSE IF upload # "ok"
          THEN [HttpError("transcribe", NoSession, 500) EXCEPT !.temp = "file"]
          ELSE IF stt.raised
          THEN [HttpError("transcribe", NoSession, 500) EXCEPT !.calls = {"stt"}]
          ELSE [NoResponse EXCEPT !.op = "transcribe", !.status = 200,
                                  !.user_text = stt.value, !.calls = {"stt"}]
    /\ UNCHANGED <<stt_handler, tts_handler, llm_handler, conversation_sessions, heap, req, turns>>

\* ------------------------------------------------ calls of the text helpers
\* a call of LanguageHelper.strip_speech_tags
StripSpeechTags(text) ==
    /\ response' =
          [NoResponse EXCEPT
              !.op = "strip_speech_tags",
              !.input = [op |-> "strip_speech_tags", text |-> text],
              !.output = [op |-> "strip_speech_tags", text |-> strip_speech_tags(text)]]
    /\ UNCHANGED <<stt_handler, tts_handler, llm_handler, conversation_sessions,
                   heap, req, turns>>

\* _prepare_speech_response: the "response" it returns for the reply `text`,
\* which /speak, /text and the complete event hand to the caller
PrepareSpeechResponse(text) ==
    /\ response' =
          [NoResponse EXCEPT
              !.op = "prepare_speech_response",
              !.input = [op |-> "prepare_speech_response", text |-> text],
              !.output = [op |-> "prepare_speech_response",
                          response |-> clean_response(text)]]
    /\ UNCHANGED <<stt_handler, tts_handler, llm_handler, conversation_sessions,
                   heap, req, turns>>

\* the text a sequence of parts spells: each part is untagged text followed
\* by one span, opening tag, content and closing tag
RECURSIVE PartsText(_)
PartsText(parts) ==
    IF parts = <<>> THEN <<>>
    ELSE Head(parts).gap \o Head(parts).open \o Head(parts).content
         \o Head(parts).close \o PartsText(Tail(parts))

\* a call of LanguageHelper.split_speech_segments on the text of `parts`
\* followed by `tail`, with the default explanation language
SplitSpeechSegments(parts, tail, target_language) ==
    /\ response' =
          [NoResponse EXCEPT
              !.op = "split_speech_segments",
              !.input = [op |-> "split_speech_segments", parts |-> parts,
                         tail |-> tail, text |-> PartsText(parts) \o tail,
                         target_language |-> target_language,
                         explanation_language |-> EXPLANATION_LANGUAGE_CODE],
              !.output = [op |-> "split_speech_segments",
                          segments |-> split_speech_segments(PartsText(parts) \o tail,
                                                             target_language,
                                                             EXPLANATION_LANGUAGE_CODE)]]
    /\ UNCHANGED <<stt_handler, tts_handler, llm_handler, conversation_sessions,
                   heap, req, turns>>

\* ---------------------------------------------------------- voice selection
\* language -> the voices listed for it, in the order of the catalog
TTS_VOICES ==
    [en |-> <<"en_US-amy-medium", "en_GB-alan-medium", "en_US-lessac-medium">>,
     es |-> <<"es_MX-ald-medium", "es_ES-davefx-medium">>,
     fr |-> <<"fr_FR-siwis-medium", "fr_FR-upmc-medium">>,
     de |-> <<"de_DE-karlsson-low", "de_DE-thorsten-medium">>,
     it |-> <<"it_IT-riccardo-medium">>,
     pt |-> <<"pt_BR-faber-medium", "pt_PT-tugao-medium">>,
     ja |-> <<"ja_JP-kokoro-medium">>,
     zh |-> <<"zh_CN-huayan-medium">>,
     ko |-> <<"ko_KR-keonhee-medium">>,
     ar |-> <<"ar_JO-kareem-medium">>,
     nl |-> <<"nl_NL-mls-medium">>,
     ru |-> <<"ru_RU-dmitri-medium">>,
     th |-> <<"th_TH-pongkul-medium">>,
     vi |-> <<"vi_VN-vivos-medium">>,
     tr |-> <<"tr_TR-dfki-medium">>,
     el |-> <<"el_GR-rapunzelina-low">>,
     pl |-> <<"pl_PL-mls-medium">>]

\* voice -> gender, as a set of pairs
TTS_VOICE_GENDER ==
    {<<"en_US-amy-medium", "female">>,
     <<"en_GB-alan-medium", "male">>,
     <<"en_US-lessac-medium", "male">>,
     <<"es_MX-ald-medium", "female">>,
     <<"es_ES-davefx-medium", "male">>,
     <<"fr_FR-siwis-medium", "female">>,
     <<"fr_FR-upmc-medium", "male">>,
     <<"de_DE-karlsson-low", "female">>,
     <<"de_DE-thorsten-medium", "male">>,
     <<"it_IT-riccardo-medium", "male">>,
     <<"pt_BR-faber-medium", "female">>,
     <<"pt_PT-tugao-medium", "male">>,
     <<"ja_JP-kokoro-medium", "female">>,
     <<"zh_CN-huayan-medium", "female">>,
     <<"ko_KR-keonhee-medium", "male">>,
     <<"ar_JO-kareem-medium", "male">>,
     <<"nl_NL-mls-medium", "female">>,
     <<"ru_RU-dmitri-medium", "male">>,
     <<"th_TH-pongkul-medium", "male">>,
     <<"vi_VN-vivos-medium", "female">>,
     <<"tr_TR-dfki-medium", "male">>,
     <<"el_GR-rapunzelina-low", "female">>,
     <<"pl_PL-mls-medium", "female">>}

NoValue == "None"

\* deviation: a style that is not recognized is taken to be male
MaleByDefault(voice_style) ==
    IF LowerWord(IF voice_style \in {NoValue, ""} THEN "female" ELSE voice_style)
          \in {"female", "male"}
    THEN LowerWord(IF voice_style \in {NoValue, ""} THEN "female" ELSE voice_style)
    ELSE "male"

normalize_voice_style(voice_style) ==
    IF LowerWord(IF voice_style \in {NoValue, ""} THEN "female" ELSE voice_style)
          \in {"female", "male"}
    THEN LowerWord(IF voice_style \in {NoValue, ""} THEN "female" ELSE voice_style)
    ELSE "female"

get_voice_gender(voice) ==
    IF \E p \in TTS_VOICE_GENDER : p[1] = voice
    THEN (CHOOSE p \in TTS_VOICE_GENDER : p[1] = voice)[2]
    ELSE "unknown"

\* TTS_VOICES.get(language.lower(), [])
CatalogVoices(language) ==
    IF LowerWord(language) \in DOMAIN TTS_VOICES THEN TTS_VOICES[LowerWord(language)]
    ELSE <<>>

\* deviation: the global fallback voice when no voice has the gender
FallbackWhenNoMatch(voices) == DEFAULT_TTS_FALLBACK_VOICE

\* `return voices[0]`, reached when no voice has the gender
FirstListed(voices) == voices[1]

get_tts_voice(language, preference, voice_style) ==
    LET voices == CatalogVoices(language)
        normalized_style == normalize_voice_style(voice_style)
        matching == {i \in DOMAIN voices : get_voice_gender(voices[i]) = normalized_style}
    IN  IF voices = <<>> THEN DEFAULT_TTS_FALLBACK_VOICE
        ELSE IF preference \notin {NoValue, ""} /\ \E i \in DOMAIN voices : voices[i] = preference
        THEN preference
        ELSE IF matching # {}
        THEN voices[CHOOSE i \in matching : \A j \in matching : i <= j]
        ELSE FirstListed(voices)

\* a call of LanguageHelper.get_tts_voice
GetTtsVoice(language, preference, voice_style) ==
    /\ response' =
          [NoResponse EXCEPT
              !.op = "get_tts_voice",
              !.input = [op |-> "get_tts_voice", language |-> language,
                         preference |-> preference, voice_style |-> voice_style],
              !.output = [op |-> "get_tts_voice",
                          voice |-> get_tts_voice(language, preference, voice_style)]]
    /\ UNCHANGED <<stt_handler, tts_handler, llm_handler, conversation_sessions,
                   heap, req, turns>>

\* ------------------------------------------- difficulty and teaching intensity
Larger(a, b) == IF a >= b THEN a ELSE b
Lesser(a, b) == IF a <= b THEN a ELSE b

\* deviation: an intensity that is not recognized is taken to be light
LightByDefault(teaching_intensity) ==
    IF LowerWord(IF teaching_intensity \in {NoValue, ""} THEN "standard"
                 ELSE teaching_intensity) \in {"light", "standard", "deep"}
    THEN LowerWord(IF teaching_intensity \in {NoValue, ""} THEN "standard"
                   ELSE teaching_intensity)
    ELSE "light"

normalize_teaching_intensity(teaching_intensity) ==
    IF LowerWord(IF teaching_intensity \in {NoValue, ""} THEN "standard"
                 ELSE teaching_intensity) \in {"light", "standard", "deep"}
    THEN LowerWord(IF teaching_intensity \in {NoValue, ""} THEN "standard"
                   ELSE teaching_intensity)
    ELSE "standard"

\* the `defaults` table of get_generation_settings; temperature and top_p in
\* hundredths
GenerationDefaults ==
    [beginner |-> [max_tokens |-> 220, temperature |-> 45, top_p |-> 85],
     intermediate |-> [max_tokens |-> 240, temperature |-> 55, top_p |-> 90],
     advanced |-> [max_tokens |-> 256, temperature |-> 65, top_p |-> 92]]

get_generation_settings(difficulty, teaching_intensity) ==
    LET level == LowerWord(difficulty)
        intensity == normalize_teaching_intensity(teaching_intensity)
        settings == IF level \in DOMAIN GenerationDefaults THEN GenerationDefaults[level]
                    ELSE GenerationDefaults["beginner"]
    IN  CASE intensity = "light" ->
                [settings EXCEPT !.max_tokens = Larger(140, settings.max_tokens - 60),
                                 !.temperature = Larger(35, settings.temperature - 8)]
          [] intensity = "deep" ->
                [settings EXCEPT !.max_tokens = Lesser(340, settings.max_tokens + 80),
                                 !.temperature = Lesser(72, settings.temperature + 5)]
          [] OTHER -> settings

\* what format_system_prompt makes of difficulty and intensity: the guidance
\* lines 3, 4 and 5 of the prompt and the intensity it names
format_system_prompt(difficulty, teaching_intensity) ==
    LET intensity == normalize_teaching_intensity(teaching_intensity)
    IN  IF difficulty = "beginner"
        THEN [balance_guidance |-> "Use mostly English explanations",
              length_guidance |->
                  CASE intensity = "light" -> "Keep replies concise: 2-3 short lines."
                    [] intensity = "deep" -> "Keep replies concise but complete: 4-5 short lines."
                    [] OTHER -> "Keep each reply concise: 3-4 lines.",
              intensity |-> intensity]
        ELSE [balance_guidance |-> "Respond mostly in the target language",
              length_guidance |->
                  CASE intensity = "light" -> "Keep responses concise unless asked for detail."
                    [] intensity = "deep" -> "Allow moderate detail when it improves clarity."
                    [] OTHER -> "Keep each reply concise unless asked for detail.",
              intensity |-> intensity]

\* settings.BEGINNER_SPEECH_RATE and its siblings, in hundredths
SpeechRates == [beginner |-> 145, intermediate |-> 120, advanced |-> 100]

resolve_default_speech_scale(difficulty, teaching_intensity) ==
    LET base_scale == IF LowerWord(difficulty) \in DOMAIN SpeechRates
                      THEN SpeechRates[LowerWord(difficulty)]
                      ELSE SpeechRates["beginner"]
        intensity == normalize_teaching_intensity(teaching_intensity)
    IN  CASE intensity = "deep" -> Lesser(200, base_scale + 8)
          [] intensity = "light" -> Larger(95, base_scale - 8)
          [] OTHER -> base_scale

\* a call of LanguageHelper.get_generation_settings
GetGenerationSettings(difficulty, teaching_intensity) ==
    /\ response' =
          [NoResponse EXCEPT
              !.op = "get_generation_settings",
              !.input = [op |-> "get_generation_settings", difficulty |-> difficulty,
                         teaching_intensity |-> teaching_intensity],
              !.output = [op |-> "get_generation_settings",
                          settings |-> get_generation_settings(difficulty,
                                                               teaching_intensity)]]
    /\ UNCHANGED <<stt_handler, tts_handler, llm_handler, conversation_sessions,
                   heap, req, turns>>

\* a call of LanguageHelper.format_system_prompt
FormatSystemPrompt(difficulty, teaching_intensity) ==
    /\ response' =
          [NoResponse EXCEPT
              !.op = "format_system_prompt",
              !.input = [op |-> "format_system_prompt", difficulty |-> difficulty,
                         teaching_intensity |-> teaching_intensity],
              !.output = [op |-> "format_system_prompt",
                          prompt |-> format_system_prompt(difficulty, teaching_intensity)]]
    /\ UNCHANGED <<stt_handler, tts_handler, llm_handler, conversation_sessions,
                   heap, req, turns>>

\* a call of _resolve_default_speech_scale
ResolveDefaultSpeechScale(difficulty, teaching_intensity) ==
    /\ response' =
          [NoResponse EXCEPT
              !.op = "resolve_default_speech_scale",
              !.input = [op |-> "resolve_default_speech_scale",
                         difficulty |-> difficulty,
                         teaching_intensity |-> teaching_intensity],
              !.output = [op |-> "resolve_default_speech_scale",
                          scale |-> resolve_default_speech_scale(difficulty,
                                                                 teaching_intensity)]]
    /\ UNCHANGED <<stt_handler, tts_handler, llm_handler, conversation_sessions,
                   heap, req, turns>>

\* a call of LanguageHelper.split_speech_segments on a text of any make
SplitRawText(text, target_language) ==
    /\ response' =
          [NoResponse EXCEPT
              !.op = "split_raw_text",
              !.input = [op |-> "split_raw_text", text |-> text,
                         target_language |-> target_language,
                         explanation_language |-> EXPLANATION_LANGUAGE_CODE],
              !.output = [op |-> "split_raw_text",
                          segments |-> split_speech_segments(text, target_language,
                                                             EXPLANATION_LANGUAGE_CODE)]]
    /\ UNCHANGED <<stt_handler, tts_handler, llm_handler, conversation_sessions,
                   heap, req, turns>>

\* settings.TTS_VOICE, the voice the TTS handler is constructed with, and
\* settings.TTS_EXPLANATION_VOICE, settings.TTS_VOICE_STYLE
TTS_VOICE == "en_US-lessac-medium"
TTS_EXPLANATION_VOICE == "en_US-amy-medium"
TTS_VOICE_STYLE == "female"

\* LanguageHelper.get_bilingual_voices: the explanation language is returned
\* as it came, the target language lower-cased
get_bilingual_voices(target_language, voice_style, target_preference, explanation_preference, explanation_language) ==
    LET target_voice == get_tts_voice(target_language, target_preference,
                                      normalize_voice_style(voice_style))
    IN  [voice_style |-> normalize_voice_style(voice_style),
         explanation_language |-> explanation_language,
         explanation_voice |->
             IF LowerWord(target_language) = LowerWord(explanation_language)
             THEN target_voice
             ELSE get_tts_voice(explanation_language, explanation_preference,
                                normalize_voice_style(voice_style)),
         target_language |-> LowerWord(target_language),
         target_voice |-> target_voice]

\* the dict literal `voice_map` of /synthesize: of two equal keys the later
\* one, the explanation language, keeps its value
voice_map(selected_voices) ==
    [k \in {selected_voices.target_language, selected_voices.explanation_language} |->
        IF k = selected_voices.explanation_language
        THEN selected_voices.explanation_voice
        ELSE selected_voices.target_voice]

\* `voice_for_language.get(segment_language, self.voice)` for each segment
\* synthesize_segments speaks, NoValue for a segment it skips as blank
chosen_voices(segments, voice_for_language) ==
    [i \in DOMAIN segments |->
        IF Strip(segments[i].text) = <<>> THEN NoValue
        ELSE IF LowerWord(segments[i].language) \in DOMAIN voice_for_language
        THEN voice_for_language[LowerWord(segments[i].language)]
        ELSE TTS_VOICE]

\* ------------------------------------------------------- speech synthesis
\* audio bytes: whether they decode as a sound file, the duration of the
\* sound in 1/100 s, and what made them
Audio(decodable, duration, made_by) ==
    [decodable |-> decodable, duration |-> duration, made_by |-> made_by]

\* what one run of the piper program leaves behind: a sound, a sound file
\* with no samples, bytes that are no sound file, a non-zero exit status, or
\* no run at all because the files of the voice model are missing
PiperOutcomes == {"wav", "silent", "garbage", "fails", "no_model"}

\* _generate_fallback_audio: a tone of max(0.5, len(text) * 0.08 * scale) s
generate_fallback_audio(text) ==
    Audio(TRUE,
          IF Len(text) * ToneCharDuration > ToneMinDuration
          THEN Len(text) * ToneCharDuration ELSE ToneMinDuration,
          "fallback")

\* TTSHandler.synthesize with the piper run going as `piper` tells
synthesize(text, piper) ==
    CASE piper \in {"no_model", "fails"} -> generate_fallback_audio(text)
      [] piper = "wav" -> Audio(TRUE, Len(text) * ToneCharDuration, "piper")
      [] piper = "silent" -> Audio(TRUE, 0, "piper")
      [] OTHER -> Audio(FALSE, 0, "piper")

\* a piece of the buffer synthesize_segments assembles: the samples rendered
\* for the segment at index `of` of the list, or the silence `pause`
Chunk(of, duration) == [kind |-> "chunk", of |-> of, duration |-> duration]

Pause == [kind |-> "pause", of |-> 0, duration |-> PauseDuration]

\* the chunks the loop of synthesize_segments has rendered, or the failure
\* of AudioProcessor.bytes_to_audio that ends it; piper[i] is the run for
\* the i-th segment
RECURSIVE RenderSegments(_, _, _)
RenderSegments(segments, piper, i) ==
    IF i > Len(segments) THEN [raised |-> FALSE, rendered |-> <<>>]
    ELSE LET segment_text == Strip(segments[i].text)
             chunk == synthesize(segment_text, piper[i])
             rest == RenderSegments(segments, piper, i + 1)
         IN  IF segment_text = <<>> THEN rest
             ELSE IF ~chunk.decodable THEN [raised |-> TRUE, rendered |-> <<>>]
             ELSE IF chunk.duration = 0 THEN rest
             ELSE [raised |-> rest.raised,
                   rendered |-> IF rest.raised THEN <<>>
                                ELSE <<Chunk(i, chunk.duration)>> \o rest.rendered]

RECURSIVE SumSeq(_)
SumSeq(s) == IF s = <<>> THEN 0 ELSE Head(s) + SumSeq(Tail(s))

\* the durations of the pieces of a buffer
Durations(pieces) == [i \in DOMAIN pieces |-> pieces[i].duration]

\* deviation: a silence is put after every chunk, the last one too
RECURSIVE PauseAfterEach(_)
PauseAfterEach(rendered) ==
    IF rendered = <<>> THEN <<>>
    ELSE <<Head(rendered), Pause>> \o PauseAfterEach(Tail(rendered))

\* the loop over enumerate(rendered_audio): the silence goes before every
\* chunk but the one at index 0
RECURSIVE merged_chunks(_)
merged_chunks(rendered) ==
    IF rendered = <<>> THEN <<>>
    ELSE IF Len(rendered) = 1 THEN rendered
    ELSE merged_chunks(SubSeq(rendered, 1, Len(rendered) - 1))
         \o <<Pause, rendered[Len(rendered)]>>

\* deviation: the chunks are merged without looking whether there is one
MergeUnchecked(rendered) ==
    Audio(rendered # <<>>, SumSeq(Durations(merged_chunks(rendered))), "merged")

\* the end of synthesize_segments: the tone when nothing was rendered, else
\* the concatenation of the merged chunks
MergeRendered(rendered) ==
    IF rendered = <<>> THEN generate_fallback_audio(<<>>)
    ELSE Audio(TRUE, SumSeq(Durations(merged_chunks(rendered))), "merged")

\* TTSHandler.synthesize_segments: the bytes it returns, or that it raised,
\* and the pieces np.concatenate has put together when it got that far
synthesize_segments(segments, piper) ==
    IF segments = <<>>
    THEN [raised |-> FALSE, audio |-> generate_fallback_audio(<<>>), combined |-> <<>>]
    ELSE LET run == RenderSegments(segments, piper, 1)
         IN  IF run.raised
             THEN [raised |-> TRUE, audio |-> Audio(FALSE, 0, "none"), combined |-> <<>>]
             ELSE [raised |-> FALSE, audio |-> MergeRendered(run.rendered),
                   combined |-> merged_chunks(run.rendered)]

\* the segments /synthesize speaks: those of the text, or the whole text
SpokenSegments(text, language, explanation_language) ==
    IF split_speech_segments(text, language, explanation_language) # <<>>
    THEN split_speech_segments(text, language, explanation_language)
    ELSE <<Segment(clean_response(text), LowerWord(language))>>

\* POST /synthesize with the form values text, language and
\* explanation_language; voice and explanation_voice are not sent and
\* voice_style has its default
synthesize_speech(text, language, explanation_language, piper) ==
    LET selected_voices ==
            get_bilingual_voices(language, TTS_VOICE_STYLE, NoValue,
                                 TTS_EXPLANATION_VOICE, explanation_language)
        segments == SpokenSegments(text, language, selected_voices.explanation_language)
        uses_multiple_languages ==
            \E i \in DOMAIN segments :
               segments[i].language # selected_voices.target_language
        several == uses_multiple_languages \/ Len(segments) > 1
        out == IF several
               THEN synthesize_segments(segments, piper)
               ELSE [raised |-> FALSE, audio |-> synthesize(segments[1].text, piper[1])]
        voices == IF several THEN chosen_voices(segments, voice_map(selected_voices))
                  ELSE <<selected_voices.target_voice>>
        asked == [op |-> "synthesize", text |-> text, language |-> language,
                  explanation_language |-> explanation_language,
                  segments |-> segments, piper |-> piper]
    IN  /\ response' =
              IF tts_handler = "none"
              THEN [NoResponse EXCEPT !.op = "synthesize", !.status = 503,
                                      !.input = asked]
              ELSE IF out.raised
              THEN [NoResponse EXCEPT !.op = "synthesize", !.status = 500,
                                      !.input = asked]
              ELSE [NoResponse EXCEPT !.op = "synthesize", !.status = 200,
                                      !.input = asked,
                                      !.output = [op |-> "synthesize", audio |-> out.audio,
                                                  selected_voices |-> selected_voices,
                                                  voices |-> voices]]
        /\ UNCHANGED <<stt_handler, tts_handler, llm_handler, conversation_sessions,
                       heap, req, turns>>

\* a call of tts_handler.synthesize_segments, as /speak and /synthesize make
SynthesizeSegments(segments, piper) ==
    /\ tts_handler = "TTSHandler"
    /\ response' =
          [NoResponse EXCEPT
              !.op = "synthesize_segments",
              !.input = [op |-> "synthesize_segments", segments |-> segments,
                         piper |-> piper],
              !.output = [op |-> "synthesize_segments",
                          raised |-> synthesize_segments(segments, piper).raised,
                          audio |-> synthesize_segments(segments, piper).audio,
                          combined |-> synthesize_segments(segments, piper).combined]]
    /\ UNCHANGED <<stt_handler, tts_handler, llm_handler, conversation_sessions,
                   heap, req, turns>>

\* ------------------------------------------------- session read and clear
\* body get_session_history returns for `sid` in the current state
SessionBody(sid) ==
    IF conversation_sessions[sid] = NoList
    THEN [session_id |-> NoSession, messages |-> <<>>]
    ELSE [session_id |-> sid, messages |-> heap[conversation_sessions[sid]]]

\* the read changes nothing: its caller gets SessionBody(sid)
get_session_history(sid) ==
    /\ SessionBody(sid).messages = Stored(sid)
    /\ UNCHANGED vars

clear_session(sid) ==
    /\ conversation_sessions' = [conversation_sessions EXCEPT ![sid] = NoList]
    /\ heap' = Collect(heap, conversation_sessions', req)
    /\ response' = [NoResponse EXCEPT !.op = "clear", !.asked = sid, !.status = 200,
                                      !.session_id = sid]
    /\ UNCHANGED <<stt_handler, tts_handler, llm_handler, req, turns>>

\* ------------------------------------------------------- streaming events
\* deviation: /speak-stream names its chunk events as /text-stream does
SharedChunkEvent == "chunk"

\* names of the server-sent events (`event: <name>`)
SpeakChunkEvent == "response_chunk"
TextChunkEvent == "chunk"

Event(name, data, display) == [name |-> name, data |-> data, display |-> display]
NoSpeech == <<NoSpeechMessage>>
Failure == <<"str(e)">>

Emit(q, name, data) == [q EXCEPT !.events = Append(@, Event(name, data, <<>>))]

\* deviation: building the `complete` event raises, after the history update,
\* and the handler of the generator reports it
EmitCompleteFailing(q, full, display) ==
    [Emit(q, "error", <<"str(e)">>) EXCEPT !.pc = "y_error"]

\* `yield "event: complete ..."`: full_response and display_response
EmitComplete(q, full, display) ==
    [q EXCEPT !.events = Append(@, Event("complete", full, display)),
              !.pc = "y_complete"]

\* `except Exception as e: yield "event: error ..."`
EmitError(q) == [Emit(q, "error", Failure) EXCEPT !.pc = "y_error"]

\* deviation: the empty-transcript branch without its `return`
EmitNoSpeechNoReturn(q) ==
    [Emit(q, "error", <<NoSpeechMessage>>) EXCEPT !.pc = "y_transcription",
                                                  !.heard = TRUE]

\* the empty-transcript branch: `yield "event: error ..."` then `return`
EmitNoSpeech(q) == [Emit(q, "error", NoSpeech) EXCEPT !.pc = "y_error"]

\* one `next()` on the iterator generate_stream returned
ChunkOutcomes ==
    {[kind |-> "raise", value |-> <<>>], [kind |-> "stop", value |-> <<>>]}
        \cup {[kind |-> "chunk", value |-> c] : c \in ChunkSet}

\* LLMHandler defines generate and count_tokens only: the attribute lookup
\* `llm_handler.generate_stream` raises AttributeError
HasGenerateStream == llm_handler = "StreamingLLM"

\* deviation: `full_response = chunk`
KeepLastChunk(full, chunk) == chunk

\* `full_response += chunk`
Accumulate(full, chunk) == full \o chunk

\* the loop body `full_response += chunk; yield chunk event`
TakeChunk(q, name, chunk) ==
    [Emit(q, name, chunk) EXCEPT !.pc = "y_chunk",
                                 !.asked = @ + 1,
                                 !.calls = @ \cup {"llm"},
                                 !.yielded = Append(@, chunk),
                                 !.full_response = Accumulate(@, chunk)]

\* ----------------------------------------------------------- /speak-stream
\* The endpoint body: the upload is read, copied to a temporary file, and the
\* StreamingResponse returned; the generator has not run yet.  A failed read
\* is a 400 before any file exists; a failed write unlinks the file (500).
speak_and_respond_stream(r, arg, upload) ==
    /\ FreeSlot(r)
    /\ IF upload = "ok"
       THEN /\ req' = [req EXCEPT ![r] = [IdleRequest EXCEPT !.kind = "speak_stream",
                                                            !.pc = "new",
                                                            !.session_id = arg,
                                                            !.temp = "file"]]
            /\ response' = NoResponse
       ELSE /\ req' = [req EXCEPT ![r] = IdleRequest]
            /\ response' = HttpError("speak_stream", arg,
                                     IF upload = "read_fails" THEN 400 ELSE 500)
    /\ UNCHANGED <<stt_handler, tts_handler, llm_handler, conversation_sessions, heap, turns>>

\* event_generator up to its first yield: the handler checks, then `start`
SpeakStreamStart(r) ==
    /\ req[r].kind = "speak_stream" /\ req[r].pc = "new"
    /\ req' = [req EXCEPT ![r] =
                  IF MissingHandler("speak_stream")
                  THEN EmitError(@)
                  ELSE [Emit(@, "start", <<>>) EXCEPT !.pc = "y_start"]]
    /\ response' = NoResponse
    /\ UNCHANGED <<stt_handler, tts_handler, llm_handler, conversation_sessions, heap, turns>>

\* from `start` to the next yield: transcribe, the empty-transcript check
SpeakStreamTranscribe(r, stt) ==
    /\ req[r].kind = "speak_stream" /\ req[r].pc = "y_start"
    /\ req' = [req EXCEPT ![r] =
                  IF stt.raised THEN EmitError([@ EXCEPT !.calls = {"stt"}])
                  ELSE IF IsBlankTranscript(stt.value)
                  THEN EmitNoSpeech([@ EXCEPT !.user_text = stt.value,
                                              !.heard = TRUE,
                                              !.calls = {"stt"}])
                  ELSE [Emit(@, "transcription", stt.value)
                            EXCEPT !.pc = "y_transcription",
                                   !.user_text = stt.value,
                                   !.heard = TRUE,
                                   !.calls = {"stt"}]]
    /\ response' = NoResponse
    /\ UNCHANGED <<stt_handler, tts_handler, llm_handler, conversation_sessions, heap, turns>>

\* from `transcription` to `response_start`: get or create the session
\* history, build the messages for the language model
SpeakStreamContext(r) ==
    LET sid == ResolveSessionId(req[r].session_id)
        st1 == EnsureSession(conversation_sessions, req, sid)
    IN  /\ req[r].kind = "speak_stream" /\ req[r].pc = "y_transcription"
        /\ conversation_sessions' = st1
        /\ req' = [req EXCEPT ![r] =
                      [Emit(@, "response_start", <<>>)
                          EXCEPT !.pc = "y_response_start", !.history = st1[sid],
                                 !.messages = build_messages(heap[st1[sid]],
                                                             req[r].user_text)]]
        /\ heap' = Collect(heap, st1, req')
        /\ response' = NoResponse
        /\ UNCHANGED <<stt_handler, tts_handler, llm_handler, turns>>

\* from `response_start` or a `response_chunk` to the next yield: one turn of
\* `for chunk in llm_handler.generate_stream(...)`, and after the loop the
\* history update and `complete`
\* (`llm_messages` is the list generate_stream was called with)
SpeakStreamGenerate(r, out) ==
    LET q == [req[r] EXCEPT !.llm_messages =
                 IF HasGenerateStream THEN req[r].messages ELSE @]
        sid == ResolveSessionId(q.session_id)
        n == NextTurn(sid)
        msgs == TurnMessages(q.user_text, q.full_response, n, q.session_id)
        upd == UpdateHistory(heap, conversation_sessions, req, sid, q.history, msgs)
    IN  /\ q.kind = "speak_stream" /\ q.pc \in {"y_response_start", "y_chunk"}
        /\ out.kind = "chunk" => Len(q.yielded) < MaxChunks
        /\ response' = NoResponse
        /\ UNCHANGED <<stt_handler, tts_handler, llm_handler>>
        /\ IF ~HasGenerateStream
           THEN /\ req' = [req EXCEPT ![r] = EmitError(q)]
                /\ UNCHANGED <<conversation_sessions, heap, turns>>
           ELSE IF out.kind = "raise"
           THEN /\ req' = [req EXCEPT ![r] =
                              EmitError([q EXCEPT !.asked = @ + 1,
                                                  !.calls = @ \cup {"llm"}])]
                /\ UNCHANGED <<conversation_sessions, heap, turns>>
           ELSE IF out.kind = "chunk"
           THEN /\ req' = [req EXCEPT ![r] = TakeChunk(q, SpeakChunkEvent, out.value)]
                /\ UNCHANGED <<conversation_sessions, heap, turns>>
           ELSE /\ req' = [req EXCEPT ![r] =
                              [EmitComplete(q, q.full_response,
                                            clean_response(q.full_response))
                                  EXCEPT !.asked = @ + 1, !.wrote = n,
                                         !.calls = @ \cup {"llm"}]]
                /\ conversation_sessions' = upd.sessions
                /\ heap' = Collect(upd.heap, upd.sessions, req')
                /\ turns' = [turns EXCEPT ![sid] = n]

\* ------------------------------------------------------------ /text-stream
TextMessages == {<<"h">>}

text_conversation_stream(r, message) ==
    /\ FreeSlot(r)
    /\ req' = [req EXCEPT ![r] = [IdleRequest EXCEPT !.kind = "text_stream",
                                                     !.pc = "new",
                                                     !.user_text = message]]
    /\ response' = NoResponse
    /\ UNCHANGED <<stt_handler, tts_handler, llm_handler, conversation_sessions, heap, turns>>

\* event_generator up to its first yield: the handler check, then `start`
TextStreamStart(r) ==
    /\ req[r].kind = "text_stream" /\ req[r].pc = "new"
    /\ req' = [req EXCEPT ![r] =
                  IF MissingHandler("text_stream")
                  THEN EmitError(@)
                  ELSE [Emit(@, "start", <<>>) EXCEPT !.pc = "y_start"]]
    /\ response' = NoResponse
    /\ UNCHANGED <<stt_handler, tts_handler, llm_handler, conversation_sessions, heap, turns>>

\* from `start` or a `chunk` to the next yield
TextStreamGenerate(r, out) ==
    LET q == req[r]
    IN  /\ q.kind = "text_stream" /\ q.pc \in {"y_start", "y_chunk"}
        /\ out.kind = "chunk" => Len(q.yielded) < MaxChunks
        /\ req' = [req EXCEPT ![r] =
              IF ~HasGenerateStream THEN EmitError(q)
              ELSE IF out.kind = "raise"
              THEN EmitError([q EXCEPT !.asked = @ + 1, !.calls = @ \cup {"llm"}])
              ELSE IF out.kind = "chunk" THEN TakeChunk(q, TextChunkEvent, out.value)
              ELSE [EmitComplete(q, q.full_response, clean_response(q.full_response))
                       EXCEPT !.asked = @ + 1, !.calls = @ \cup {"llm"}]]
        /\ response' = NoResponse
        /\ UNCHANGED <<stt_handler, tts_handler, llm_handler, conversation_sessions, heap, turns>>

\* ------------------------------------------------- end of a generator, caller
\* resumed after its last yield (`complete`, `error`): the body runs to its
\* end, `finally` unlinks the temporary file, and the generator and its locals
\* are gone
StreamReturn(r) ==
    /\ req[r].pc \in {"y_complete", "y_error"}
    /\ req' = [req EXCEPT ![r] = IdleRequest]
    /\ heap' = Collect(heap, conversation_sessions, req')
    /\ response' = NoResponse
    /\ UNCHANGED <<stt_handler, tts_handler, llm_handler, conversation_sessions, turns>>

\* the caller drops the connection
Disconnect(r) ==
    /\ InFlight(req[r]) /\ ~req[r].gone
    /\ req' = [req EXCEPT ![r].gone = TRUE]
    /\ response' = NoResponse
    /\ UNCHANGED <<stt_handler, tts_handler, llm_handler, conversation_sessions, heap, turns>>

\* A generator closed before it was ever resumed runs none of its body, its
\* `finally` included: the temporary file stays.  Closed at a yield, the
\* `finally` unlinks the file.
ClosedGenerator(q) ==
    IF q.pc = "new" THEN [IdleRequest EXCEPT !.temp = q.temp] ELSE IdleRequest

\* the server notices the dropped connection while the generator is suspended
\* and closes it: GeneratorExit is raised at the yield, which `except
\* Exception` does not catch, and the generator is never resumed
StreamClose(r) ==
    /\ InFlight(req[r]) /\ req[r].gone
    /\ req' = [req EXCEPT ![r] = ClosedGenerator(@)]
    /\ heap' = Collect(heap, conversation_sessions, req')
    /\ response' = NoResponse
    /\ UNCHANGED <<stt_handler, tts_handler, llm_handler, conversation_sessions, turns>>

\* --------------------------------------------------------- specifications
\* requests that count against a bound: the turns appended so far and the
\* streams in flight (a request that failed leaves nothing behind)
RECURSIVE SumTurns(_)
SumTurns(S) ==
    IF S = {} THEN 0
    ELSE LET s == CHOOSE x \in S : TRUE IN turns[s] + SumTurns(S \ {s})

Load == SumTurns(SessionIds) + Cardinality({r \in Slots : InFlight(req[r])})

\* inputs of Spec: collaborators that answer (their failures are in SpecStream)
SpecStt == {Returned(<<"h">>)}
SpecGenerate == {Returned(<<"[", "T", "L", "]", "a", " ">>)}
SpecChunks(q) ==
    {[kind |-> "stop", value |-> <<>>]}
        \cup (IF q.yielded = <<>>
              THEN {[kind |-> "chunk", value |-> <<"a">>]}
              ELSE {})

\* Spec: spoken turns, session reads and session clears of concurrent callers
\* on the shared session store
Next ==
    \/ \E arg \in SessionArgs, stt \in SpecStt, out \in SpecGenerate :
          Load < MaxRequests /\ speak_and_respond(arg, "ok", stt, out)
    \/ \E r \in Slots, arg \in SessionArgs :
          Load < MaxRequests /\ speak_and_respond_stream(r, arg, "ok")
    \/ \E r \in Slots : SpeakStreamStart(r)
    \/ \E r \in Slots, stt \in SpecStt : SpeakStreamTranscribe(r, stt)
    \/ \E r \in Slots : SpeakStreamContext(r)
    \/ \E r \in Slots : \E out \in SpecChunks(req[r]) : SpeakStreamGenerate(r, out)
    \/ \E r \in Slots : StreamReturn(r)
    \/ \E sid \in SessionIds : get_session_history(sid)
    \/ \E sid \in SessionIds : clear_session(sid)

Spec == Init /\ [][Next]_vars

\* SpecStream: the streaming requests of one caller, one at a time, with every
\* outcome of the collaborators, the caller dropping the connection, and
\* session reads and clears arriving in between the steps of a stream
NextStream ==
    \/ \E arg \in SessionArgs :
          Load < MaxStreamTurns /\ speak_and_respond_stream(1, arg, "ok")
    \/ \E m \in TextMessages :
          Load < MaxStreamTurns /\ text_conversation_stream(1, m)
    \/ SpeakStreamStart(1)
    \/ \E stt \in SttOutcomes : SpeakStreamTranscribe(1, stt)
    \/ SpeakStreamContext(1)
    \/ \E out \in ChunkOutcomes : SpeakStreamGenerate(1, out)
    \/ TextStreamStart(1)
    \/ \E out \in ChunkOutcomes : TextStreamGenerate(1, out)
    \/ StreamReturn(1)
    \/ Disconnect(1)
    \/ StreamClose(1)
    \/ \E sid \in SessionIds : get_session_history(sid)
    \/ \E sid \in SessionIds : clear_session(sid)

SpecStream == Init /\ [][NextStream]_vars

\* inputs of SpecSeq: every spoken turn says the same and is answered the same
SeqStt == {Raised, Returned(<<>>), Returned(<<"h">>)}
SeqSpeakStt == {Raised, Returned(<<"h">>)}
SeqGenerate == {Raised, Returned(<<"a">>)}
SeqChunks(q) ==
    {[kind |-> "raise", value |-> <<>>]}
        \cup (IF q.yielded = <<>>
              THEN {[kind |-> "chunk", value |-> <<"a">>]}
              ELSE {[kind |-> "chunk", value |-> <<" ">>],
                    [kind |-> "stop", value |-> <<>>]})

\* SpecSeq: spoken turns on the one session "s1", each started after the one
\* before it has ended, and session reads
NextSeq ==
    \/ \E stt \in SeqSpeakStt, out \in SeqGenerate :
          /\ Load < MaxSeqTurns
          /\ ~InFlight(req[1])
          /\ out.raised => llm_handler # "LLMHandler"
          /\ speak_and_respond("s1", "ok", stt, out)
    \/ Load < MaxSeqTurns /\ speak_and_respond_stream(1, "s1", "ok")
    \/ SpeakStreamStart(1)
    \/ \E stt \in SeqStt : SpeakStreamTranscribe(1, stt)
    \/ SpeakStreamContext(1)
    \/ \E out \in SeqChunks(req[1]) : SpeakStreamGenerate(1, out)
    \/ StreamReturn(1)
    \/ get_session_history("s1")

SpecSeq == Init /\ [][NextSeq]_vars

\* SpecBusy: concurrent spoken turns, reads and clears on session "s1" when
\* it has a past of BusyTurns turns, so that its list is full and every
\* further turn cuts it
RECURSIVE PastTurns(_)
PastTurns(k) ==
    IF k = 0 THEN <<>>
    ELSE PastTurns(k - 1) \o TurnMessages(<<"h">>, <<"a">>, k, "s1")

InitBusy ==
    /\ stt_handler = "STTHandler"
    /\ tts_handler = "TTSHandler"
    /\ llm_handler = "StreamingLLM"
    /\ conversation_sessions = [s \in SessionIds |-> IF s = "s1" THEN 1 ELSE NoList]
    /\ heap = [l \in ListIds |->
                  IF l = 1 THEN TrimmedHistory(PastTurns(BusyTurns)) ELSE <<>>]
    /\ req = [r \in Slots |-> IdleRequest]
    /\ turns = [s \in SessionIds |-> IF s = "s1" THEN BusyTurns ELSE 0]
    /\ response = NoResponse

NextBusy ==
    \/ \E stt \in SpecStt, out \in SpecGenerate :
          Load < BusyTurns + MaxBusyRequests /\ speak_and_respond("s1", "ok", stt, out)
    \/ \E r \in Slots :
          Load < BusyTurns + MaxBusyRequests /\ speak_and_respond_stream(r, "s1", "ok")
    \/ \E r \in Slots : SpeakStreamStart(r)
    \/ \E r \in Slots, stt \in SpecStt : SpeakStreamTranscribe(r, stt)
    \/ \E r \in Slots : SpeakStreamContext(r)
    \/ \E r \in Slots : \E out \in SpecChunks(req[r]) : SpeakStreamGenerate(r, out)
    \/ \E r \in Slots : StreamReturn(r)
    \/ get_session_history("s1")
    \/ clear_session("s1")

SpecBusy == InitBusy /\ [][NextBusy]_vars

\* SpecCaller: the requests of one caller to every conversation endpoint, one
\* at a time on session "s1", with every way of saving the upload, failing
\* collaborators, and the caller dropping the connection of a stream
NextCaller ==
    \/ \E m \in TextMessages, out \in SeqGenerate : text_conversation(m, out)
    \/ \E m \in TextMessages :
          Load < MaxStreamTurns /\ text_conversation_stream(1, m)
    \/ TextStreamStart(1)
    \/ \E out \in SeqChunks(req[1]) : TextStreamGenerate(1, out)
    \/ \E upload \in Uploads, stt \in SeqStt : transcribe_audio(upload, stt)
    \/ \E upload \in Uploads, stt \in SeqStt, out \in SeqGenerate :
          /\ Load < MaxStreamTurns
          /\ ~InFlight(req[1])
          /\ speak_and_respond("s1", upload, stt, out)
    \/ \E upload \in Uploads :
          Load < MaxStreamTurns /\ speak_and_respond_stream(1, "s1", upload)
    \/ SpeakStreamStart(1)
    \/ \E stt \in SeqStt : SpeakStreamTranscribe(1, stt)
    \/ SpeakStreamContext(1)
    \/ \E out \in SeqChunks(req[1]) : SpeakStreamGenerate(1, out)
    \/ StreamReturn(1)
    \/ Disconnect(1)
    \/ StreamClose(1)

SpecCaller == Init /\ [][NextCaller]_vars

\* the speech endpoints and the handler they call: /synthesize with a form
\* text and language, and synthesize_segments with a segment list
SpeechTexts ==
    {<<"h", "i">>, <<" ">>, <<"[", "E", "N", "]", "[", "/", "E", "N", "]">>,
     <<"[", "T", "L", "]", "h", "i", "[", "/", "T", "L", "]">>,
     <<"[", "E", "N", "]", "i", " ", "d", "o", "[", "/", "E", "N", "]",
       "[", "T", "L", "]", "h", "i", "[", "/", "T", "L", "]">>}

SpeechLanguages == {"es", "en"}


RECURSIVE SeqsUpTo(_, _)
SeqsUpTo(S, n) ==
    IF n = 0 THEN {<<>>}
    ELSE SeqsUpTo(S, n - 1)
         \cup {Append(q, x) : q \in {p \in SeqsUpTo(S, n - 1) : Len(p) = n - 1}, x \in S}

SegmentLists ==
    SeqsUpTo({Segment(t, l) : t \in {<<>>, <<" ">>, <<"h", "i">>}, l \in SpeechLanguages},
             MaxSegments)

PiperRuns == [1..MaxSegments -> PiperOutcomes]

InitSpeech ==
    /\ stt_handler = "STTHandler"
    /\ tts_handler \in {"none", "TTSHandler"}
    /\ llm_handler = "LLMHandler"
    /\ conversation_sessions = [s \in SessionIds |-> NoList]
    /\ heap = [l \in ListIds |-> <<>>]
    /\ req = [r \in Slots |-> IdleRequest]
    /\ turns = [s \in SessionIds |-> 0]
    /\ response = NoResponse

\* no call was made yet: these calls read and write no session, so that one
\* call in a behaviour shows all a call can do
FirstCall == response = NoResponse

\* the target language and the explanation language come as a caller
\* writes them, in either letter case
NextSpeech ==
    \/ /\ FirstCall
       /\ \E text \in SpeechTexts, language \in SpeechLanguages \cup {"ES"},
             explanation_language \in {"en", "EN"}, piper \in PiperRuns :
                synthesize_speech(text, language, explanation_language, piper)
    \/ /\ FirstCall
       /\ \E segments \in SegmentLists, piper \in PiperRuns :
             SynthesizeSegments(segments, piper)

SpecSpeech == InitSpeech /\ [][NextSpeech]_vars

\* the text helpers, called on texts put together from markers, pieces of
\* markers, whitespace and letters
TokenTexts ==
    {Concat(q) : q \in SeqsUpTo(
        {<<"[", "E", "N", "]">>, <<"[", "/", "e", "n", "]">>, <<"[", "t", "l", "]">>,
         <<"[", "/", "T", "L", "]">>, <<"[">>, <<"E", "N", "]">>, <<" ">>, <<"h">>},
        MaxTokens)}

\* the ways a span is tagged: opening tag, closing tag, and the tag it is
TagForms ==
    {[open |-> <<"[", "E", "N", "]">>, close |-> <<"[", "/", "E", "N", "]">>, tag |-> "EN"],
     [open |-> <<"[", "e", "n", "]">>, close |-> <<"[", "/", "E", "n", "]">>, tag |-> "EN"],
     [open |-> <<"[", "T", "L", "]">>, close |-> <<"[", "/", "t", "l", "]">>, tag |-> "TL"]}

GapTexts == {<<>>, <<" ", " ">>, <<"i", " ", " ", "d", "o">>}

Part(gap, form, content) ==
    [gap |-> gap, open |-> form.open, content |-> content, close |-> form.close,
     tag |-> form.tag]

\* "[EN]Hello[/EN] [TL]Hola[/TL]"
ExampleParts ==
    <<[gap |-> <<>>, open |-> <<"[", "E", "N", "]">>,
       content |-> <<"H", "e", "l", "l", "o">>,
       close |-> <<"[", "/", "E", "N", "]">>, tag |-> "EN"],
      [gap |-> <<" ">>, open |-> <<"[", "T", "L", "]">>,
       content |-> <<"H", "o", "l", "a">>,
       close |-> <<"[", "/", "T", "L", "]">>, tag |-> "TL"]>>

\* lists of spans with contents that are plain, empty and padded
PartLists ==
    SeqsUpTo({Part(g, f, c) : g \in GapTexts, f \in TagForms,
                              c \in {<<"h", "i">>, <<>>, <<" ", "h", "i">>}},
             MaxSpans)
    \cup {ExampleParts}

\* untagged texts: words of the hint list, other words and numbers, with one
\* space between them
RECURSIVE JoinWords(_)
JoinWords(q) ==
    IF q = <<>> THEN <<>>
    ELSE IF Len(q) = 1 THEN Head(q)
    ELSE Head(q) \o <<" ">> \o JoinWords(Tail(q))

WordTexts == {JoinWords(q) : q \in SeqsUpTo({<<"i">>, <<"x">>, <<"7">>}, MaxWords)}

NextText ==
    \/ FirstCall /\ \E text \in TokenTexts : StripSpeechTags(text)
    \/ FirstCall /\ \E text \in TokenTexts : PrepareSpeechResponse(text)
    \/ /\ FirstCall
       /\ \E parts \in PartLists, tail \in GapTexts, language \in SpeechLanguages :
             SplitSpeechSegments(parts, tail, language)
    \/ /\ FirstCall
       /\ \E text \in TokenTexts, language \in SpeechLanguages :
             SplitRawText(text, language)
    \/ /\ FirstCall
       /\ \E text \in WordTexts, language \in SpeechLanguages :
             SplitSpeechSegments(<<>>, text, language)
    \/ /\ FirstCall
       /\ \E gap \in WordTexts, form \in {f \in TagForms : f.tag = "TL"},
             language \in SpeechLanguages :
             SplitSpeechSegments(<<Part(gap, form, <<"h", "i">>)>>, <<>>, language)

SpecText == InitSpeech /\ [][NextText]_vars

\* voice selection, called with languages in and out of the catalog, written
\* in either case, with every voice of the catalog or none as the explicit
\* voice, and with styles given, missing and unknown
AllVoices == {p[1] : p \in TTS_VOICE_GENDER}

NextVoice ==
    /\ FirstCall
    /\ \E language \in DOMAIN TTS_VOICES \cup {"ES", "EN", "xx"},
          preference \in AllVoices \cup {NoValue, "", "xx_XX-nobody-low"},
          voice_style \in {NoValue, "", "female", "male", "MALE", "Female", "robot"} :
             GetTtsVoice(language, preference, voice_style)

SpecVoice == InitSpeech /\ [][NextVoice]_vars

\* the lookups by difficulty and teaching intensity, with the values the
\* forms document, the same in other letter cases, and values outside them
Difficulties ==
    {"beginner", "intermediate", "advanced", "BEGINNER", "Beginner", "Intermediate",
     "ADVANCED", "expert", ""}

Intensities ==
    {NoValue, "", "light", "standard", "deep", "LIGHT", "Deep", "Standard", "extreme"}

NextSettings ==
    \/ /\ FirstCall
       /\ \E difficulty \in Difficulties, intensity \in Intensities :
             GetGenerationSettings(difficulty, intensity)
    \/ /\ FirstCall
       /\ \E difficulty \in Difficulties, intensity \in Intensities :
             FormatSystemPrompt(difficulty, intensity)
    \/ /\ FirstCall
       /\ \E difficulty \in Difficulties, intensity \in Intensities :
             ResolveDefaultSpeechScale(difficulty, intensity)

SpecSettings == InitSpeech /\ [][NextSettings]_vars

\* ------------------------------------------------------------- properties
\* vocabulary of the properties, independent of the definitions above
EventNames(q) == [i \in 1..Len(q.events) |-> q.events[i].name]
Repeat(name, k) == [i \in 1..k |-> name]
IsChunkEvent(e) == e.name \in {"response_chunk", "chunk"}
ChunkPayloads(q) ==
    LET chunks == SelectSeq(q.events, IsChunkEvent)
    IN  [i \in 1..Len(chunks) |-> chunks[i].data]
IsTerminal(e) == e.name \in {"complete", "error"}
TerminalPositions(q) == {i \in 1..Len(q.events) : IsTerminal(q.events[i])}
Streaming(q) == q.kind \in {"speak_stream", "text_stream"}
\* empty or whitespace-only
Blank(t) == \A i \in 1..Len(t) : t[i] = " "
\* the session a request carrying the form value `arg` is addressed to
AddressedSession(arg) == IF arg = NoSession THEN "default" ELSE arg
Smaller(a, b) == IF a <= b THEN a ELSE b

AudioOrder(k) ==
    <<"start", "transcription", "response_start">>
        \o Repeat("response_chunk", k) \o <<"complete">>
TextOrder(k) == <<"start">> \o Repeat("chunk", k) \o <<"complete">>

C2_TrimmedToMostRecent ==
    LET k == turns["s1"]
        st == Stored("s1")
        kept == Smaller(2 * k, 20)
    IN  /\ Len(st) = kept
        /\ \A j \in 1..Len(st) :
              /\ st[j].n = k - (kept \div 2) + ((j + 1) \div 2)
              /\ st[j].role = IF j % 2 = 1 THEN "user" ELSE "assistant"

C2_OldestTurnsDropped ==
    /\ turns["s1"] >= 12
    /\ Len(Stored("s1")) = 20
    /\ Stored("s1")[1].n = 3 /\ Stored("s1")[20].n = 12

\* C3 as stated: the step in which a spoken turn completes with a non-empty
\* reply leaves the stored history of its session ending with that turn's
\* user message and assistant message, so that a read issued right after it
\* returns them, whatever other requests and clears were interleaved.
C3_ReadAfterCompletionEndsWithTurn ==
    [][ /\ \A r \in Slots :
              ( /\ req[r].pc # "y_complete" /\ req'[r].pc = "y_complete"
                /\ req'[r].kind = "speak_stream"
                /\ req'[r].full_response # <<>> )
              => \A sid \in {AddressedSession(req[r].session_id)} :
                     LastN(SessionBody(sid).messages', 2) =
                        <<[role |-> "user", content |-> req'[r].user_text,
                           n |-> req'[r].wrote, by |-> req'[r].session_id],
                          [role |-> "assistant",
                           content |-> req'[r].events[Len(req'[r].events)].display,
                           n |-> req'[r].wrote, by |-> req'[r].session_id]>>
        /\ ( /\ response' # response /\ response'.op = "speak"
             /\ response'.status = 200 /\ response'.text # <<>> )
           => \A sid \in SessionIds :
                 sid = AddressedSession(response'.asked) =>
                 LastN(SessionBody(sid).messages', 2) =
                 <<[role |-> "user", content |-> response'.user_text,
                    n |-> response'.wrote, by |-> response'.asked],
                   [role |-> "assistant", content |-> response'.text,
                    n |-> response'.wrote, by |-> response'.asked]>>
      ]_vars

\* C4: a spoken request that terminates with an error has changed the
\* messages stored under no session id.  The stored messages change only in
\* the step in which a spoken turn completes (HTTP 200, or the `complete`
\* event) or a session is cleared, and a request that has reported an error
\* has appended nothing.
C4_ErrorLeavesHistory ==
    /\ [](\A r \in Slots :
             (\E i \in 1..Len(req[r].events) : req[r].events[i].name = "error")
                 => req[r].wrote = 0 /\ req[r].pc = "y_error")
    /\ [][ (\E s \in SessionIds : Stored(s)' # Stored(s))
              => \/ response'.op = "speak" /\ response'.status = 200
                 \/ response'.op = "clear"
                 \/ \E r \in Slots : /\ req[r].pc # "y_complete"
                                     /\ req'[r].pc = "y_complete"
                                     /\ TerminalPositions(req[r]) = {} ]_vars

C4_ErrorWhileStreaming ==
    \E r \in Slots :
        /\ req[r].pc = "y_error" /\ req[r].yielded # <<>>
        /\ Len(Stored("s1")) >= 2

\* C5 as stated: once the caller has disconnected before `complete` was
\* emitted, the pipeline asks the LLM collaborator for nothing more, emits no
\* further event and appends nothing to a session history.
C5_NothingAfterDisconnect ==
    [][ \A r \in Slots :
          ( /\ req[r].gone /\ InFlight(req[r])
            /\ \A i \in 1..Len(req[r].events) : req[r].events[i].name # "complete" )
          => \/ ~InFlight(req'[r])
             \/ /\ req'[r].events = req[r].events
                /\ req'[r].asked = req[r].asked
                /\ req'[r].wrote = req[r].wrote
                /\ turns' = turns ]_vars

\* C6: on the streaming audio path a transcript that is empty or
\* whitespace-only gives exactly the events start, error("No speech detected
\* in audio ..."), the generator stops there, and the LLM collaborator was never
\* called.
C6_BlankTranscriptEvents ==
    \A r \in Slots :
        (req[r].kind = "speak_stream" /\ req[r].heard /\ Blank(req[r].user_text))
            => /\ req[r].events =
                    <<[name |-> "start", data |-> <<>>, display |-> <<>>],
                      [name |-> "error",
                       data |-> <<"No speech detected in audio. Please try speaking louder or closer to the microphone.">>,
                       display |-> <<>>]>>
               /\ req[r].pc = "y_error"
               /\ req[r].asked = 0

C6_WhitespaceTranscript ==
    \E r \in Slots :
        req[r].heard /\ req[r].user_text = <<" ">> /\ req[r].pc = "y_error"

\* C7: a streaming request has at most one terminal event (complete or
\* error), it is the last event emitted, the generator stops after it, and a
\* generator the caller did not abandon ends only after a terminal event.
C7_OneTerminalEvent ==
    /\ [](\A r \in Slots :
             /\ TerminalPositions(req[r]) \subseteq {Len(req[r].events)}
             /\ TerminalPositions(req[r]) # {}
                   <=> req[r].pc \in {"y_complete", "y_error"}
             /\ req[r].pc = "y_complete"
                   => req[r].events[Len(req[r].events)].name = "complete"
             /\ req[r].pc = "y_error"
                   => req[r].events[Len(req[r].events)].name = "error")
    /\ [][ \A r \in Slots :
             /\ TerminalPositions(req[r]) # {}
                   => req'[r].events \in {req[r].events, <<>>}
             /\ (InFlight(req[r]) /\ ~InFlight(req'[r]) /\ ~req[r].gone)
                   => TerminalPositions(req[r]) # {} ]_vars

C7_ErrorAfterChunk ==
    \E r \in Slots :
        /\ req[r].pc = "y_error" /\ ~req[r].gone
        /\ Len(req[r].events) >= 5
        /\ req[r].events[4].name = "response_chunk"

\* C8 as stated: a streaming request whose transcript is non-blank (audio
\* path) and that runs with the language-model handler the application
\* installs emits no error event.
C8_InstalledHandlerNoError ==
    \A r \in Slots :
        ( /\ llm_handler = "LLMHandler"
          /\ \/ req[r].kind = "text_stream"
             \/ req[r].kind = "speak_stream" /\ req[r].heard
                    /\ ~Blank(req[r].user_text) )
        => \A i \in 1..Len(req[r].events) : req[r].events[i].name # "error"

\* C9: the chunk events of a streaming request carry the chunks the LLM
\* collaborator yielded, one event per chunk in the same order, and the
\* full reply text of `complete` is the concatenation of the chunk payloads
\* emitted before it.
C9_ChunksInOrder ==
    \A r \in Slots :
        Streaming(req[r]) =>
            /\ ChunkPayloads(req[r]) = req[r].yielded
            /\ req[r].pc = "y_complete"
                  => req[r].events[Len(req[r].events)].data
                        = Concat(ChunkPayloads(req[r]))

C9_TwoDifferentChunks ==
    \E r \in Slots :
        /\ req[r].pc = "y_complete" /\ Len(req[r].yielded) = 2
        /\ req[r].yielded[1] # req[r].yielded[2]

\* C10: the messages stored under, and returned by a read of, a session id
\* were all appended by requests addressed to that id (a request without a
\* session id being addressed to "default"); no list object is shared by two
\* session ids or held by a request addressed to another id; and the
\* messages stored under an id change only in a step of a request addressed
\* to that id.
C10_SessionIsolation ==
    /\ [](\A a \in SessionIds :
             /\ \A j \in 1..Len(SessionBody(a).messages) :
                   AddressedSession(SessionBody(a).messages[j].by) = a
             /\ \A b \in SessionIds \ {a} :
                   /\ conversation_sessions[a] # NoList
                         => conversation_sessions[a] # conversation_sessions[b]
                   /\ \A r \in Slots :
                         (req[r].history # NoList
                              /\ AddressedSession(req[r].session_id) = a)
                             => conversation_sessions[b] # req[r].history)
    /\ [][ \A b \in SessionIds :
             Stored(b)' # Stored(b)
                => \/ /\ response'.op \in {"speak", "clear"}
                      /\ AddressedSession(response'.asked) = b
                   \/ \E r \in Slots :
                         /\ req[r].pc # "y_complete" /\ req'[r].pc = "y_complete"
                         /\ AddressedSession(req[r].session_id) = b ]_vars

C10_TwoSessionsInUse ==
    /\ Stored("default") # <<>> /\ Stored("default")[1].by = NoSession
    /\ Stored("s1") # <<>>

\* C11 as stated: no temporary audio file outlives its request: after a
\* non-streaming endpoint has returned, the file it made is gone, and a slot
\* whose streaming request has ended (or was dropped by its caller, before or
\* after the stream was first consumed) has no file left.
C11_TempFilesDeleted ==
    /\ response.temp = "none"
    /\ \A r \in Slots : ~InFlight(req[r]) => req[r].temp = "none"

\* the collaborators an endpoint needs
Needs(op) ==
    CASE op \in {"speak", "speak_stream"} -> {"stt", "llm"}
      [] op \in {"text", "text_stream"} -> {"llm"}
      [] op = "transcribe" -> {"stt"}
      [] OTHER -> {}
NotInitialized ==
    {c \in {"stt", "llm"} : (c = "stt" /\ stt_handler = "none")
                                \/ (c = "llm" /\ llm_handler = "none")}

C13_ReplyComesFromEngine ==
    (response.op \in {"text", "speak"} /\ response.status = 200)
        => response.engine = "returned"

\* C14 as stated: a /synthesize request never fails because of speech
\* synthesis; with the handler not initialized, the voice model missing, a
\* segment failing or bytes that do not decode, the response is still HTTP
\* 200 with audio bytes.
C14_SynthesisNeverFails ==
    response.op = "synthesize"
        => /\ response.status = 200
           /\ response.output.op = "synthesize"
           /\ response.output.audio.decodable

\* the segments of which nothing is left to merge: the text is blank, or the
\* piper run for it leaves a sound file with no samples
NothingSurvives(segments, piper) ==
    \A i \in DOMAIN segments :
        \/ Blank(segments[i].text)
        \/ piper[i] = "silent"

\* C15: synthesize_segments returns the fallback tone, a sound of positive
\* length, and raises nothing, whenever no segment survives: the list is
\* empty, every text is blank, or every segment's sound has no samples.
C15_FallbackWhenNothingSurvives ==
    (/\ response.op = "synthesize_segments"
     /\ NothingSurvives(response.input.segments, response.input.piper))
        => /\ ~response.output.raised
           /\ response.output.audio.decodable
           /\ response.output.audio.duration > 0
           /\ response.output.audio.made_by = "fallback"

C15_AllSegmentsSilent ==
    /\ response.op = "synthesize_segments"
    /\ Len(response.input.segments) = MaxSegments
    /\ \A i \in DOMAIN response.input.segments :
          /\ ~Blank(response.input.segments[i].text)
          /\ response.input.piper[i] = "silent"
    /\ response.output.audio.made_by = "fallback"

\* what the claim's words give for a text of spans: one segment per piece of
\* untagged text that is not blank, one segment per span, in the order they
\* appear; `tagged` tells the two apart. WholeContent takes the text of a
\* span's segment to be the content as written between the markers.
RECURSIVE SpansInOrder(_, _, _, _)
SpansInOrder(parts, tail, target, explanation) ==
    IF parts = <<>>
    THEN IF Blank(tail) THEN <<>>
         ELSE <<[text |-> tail, language |-> "guessed", tagged |-> FALSE]>>
    ELSE (IF Blank(Head(parts).gap) THEN <<>>
          ELSE <<[text |-> Head(parts).gap, language |-> "guessed", tagged |-> FALSE]>>)
         \o <<[text |-> Head(parts).content,
               language |-> IF Head(parts).tag = "EN" THEN explanation ELSE target,
               tagged |-> TRUE]>>
         \o SpansInOrder(Tail(parts), tail, target, explanation)

\* the segments are the expected ones: same number, same order, the expected
\* text up to `same`, and for a span the language of its tag
SegmentsAre(segments, expected, target, explanation, same(_, _)) ==
    /\ Len(segments) = Len(expected)
    /\ \A i \in DOMAIN expected :
          /\ i \in DOMAIN segments
          /\ same(segments[i].text, expected[i].text)
          /\ IF expected[i].tagged
             THEN segments[i].language = expected[i].language
             ELSE segments[i].language \in {target, explanation}

SameText(a, b) == a = b

\* C16 as stated: every matched span yields one segment whose text is the
\* content between its markers, with the language of its tag, and every
\* untagged text between spans yields its segment, all in the order of the
\* text.
C16_EverySpanOneSegment ==
    response.op = "split_speech_segments"
        => SegmentsAre(response.output.segments,
                       SpansInOrder(response.input.parts, response.input.tail,
                                    response.input.target_language,
                                    response.input.explanation_language),
                       response.input.target_language,
                       response.input.explanation_language, SameText)

\* whitespace runs collapsed to one space, ends trimmed
SameWords(a, b) == a = Strip(CollapseSpaces(b))

\* the spans whose content is not blank
RECURSIVE SpokenParts(_)
SpokenParts(expected) ==
    IF expected = <<>> THEN <<>>
    ELSE (IF Blank(Head(expected).text) THEN <<>> ELSE <<Head(expected)>>)
         \o SpokenParts(Tail(expected))

\* C16 amended: every matched span whose content is not blank yields one
\* segment whose text is that content with whitespace collapsed and trimmed,
\* with the language of its tag (EN explanation, TL target, in any case of
\* the letters); a span with blank content yields none; untagged text that
\* is not blank yields its segment; all in the order of the text.
C16_NonBlankSpansInOrder ==
    response.op = "split_speech_segments"
        => SegmentsAre(response.output.segments,
                       SpokenParts(SpansInOrder(response.input.parts, response.input.tail,
                                                response.input.target_language,
                                                response.input.explanation_language)),
                       response.input.target_language,
                       response.input.explanation_language, SameWords)

\* the example of the claim: "[EN]Hello[/EN] [TL]Hola[/TL]" with target es
C16_HelloHola ==
    /\ response.op = "split_speech_segments"
    /\ response.input.parts = ExampleParts /\ response.input.tail = <<>>
    /\ response.input.target_language = "es"
    /\ response.input.explanation_language = "en"
    /\ response.output.segments =
          <<[text |-> <<"H", "e", "l", "l", "o">>, language |-> "en"],
            [text |-> <<"H", "o", "l", "a">>, language |-> "es"]>>

\* C17 as stated: stripping the tags of a stripped text changes nothing.
C17_StripIdempotent ==
    response.op = "strip_speech_tags"
        => strip_speech_tags(response.output.text) = response.output.text

\* a marker [EN], [/EN], [TL] or [/TL], in any case of the letters, at
\* position p of t
MarkerAt(t, p) ==
    LET name(a, b) == <<Lower(a), Lower(b)>> \in {<<"e", "n">>, <<"t", "l">>}
    IN  \/ /\ p + 3 <= Len(t)
           /\ t[p] = "[" /\ name(t[p + 1], t[p + 2]) /\ t[p + 3] = "]"
        \/ /\ p + 4 <= Len(t)
           /\ t[p] = "[" /\ t[p + 1] = "/" /\ name(t[p + 2], t[p + 3]) /\ t[p + 4] = "]"

HasMarker(t) == \E p \in 1..Len(t) : MarkerAt(t, p)

\* C18 as stated: the display text, the result of strip_speech_tags and the
\* response text built from it, contains no marker, whatever the input.
C18_DisplayHasNoMarker ==
    /\ response.op = "strip_speech_tags" => ~HasMarker(response.output.text)
    /\ response.op = "prepare_speech_response" => ~HasMarker(response.output.response)

\* vocabulary of the voice claims
InCatalog(language) == LowerWord(language) \in DOMAIN TTS_VOICES
ListedFor(language) ==
    IF InCatalog(language)
    THEN {TTS_VOICES[LowerWord(language)][i] : i \in DOMAIN TTS_VOICES[LowerWord(language)]}
    ELSE {}
GenderOf(voice) ==
    IF \E p \in TTS_VOICE_GENDER : p[1] = voice /\ p[2] = "male" THEN "male"
    ELSE IF \E p \in TTS_VOICE_GENDER : p[1] = voice /\ p[2] = "female" THEN "female"
    ELSE "unknown"
WantedGender(voice_style) ==
    IF voice_style \in {"male", "MALE"} THEN "male" ELSE "female"
\* position of the voice in the list of the language
PositionOf(language, voice) ==
    CHOOSE i \in DOMAIN TTS_VOICES[LowerWord(language)] :
        TTS_VOICES[LowerWord(language)][i] = voice

\* C19: get_tts_voice returns the explicit voice unchanged when it is listed
\* for the language; otherwise, the explicit voice missing or not listed, it
\* returns the first voice of the language, in catalog order, whose gender is
\* the normalized style, a missing or unknown style counting as female (for a
\* language of the catalog that has a voice of that gender).
C19_ExplicitElseFirstOfStyle ==
    LET in == response.input
        voice == response.output.voice
        wanted == WantedGender(in.voice_style)
    IN  (response.op = "get_tts_voice" /\ InCatalog(in.language))
            => IF in.preference \in ListedFor(in.language)
               THEN voice = in.preference
               ELSE (\E v \in ListedFor(in.language) : GenderOf(v) = wanted)
                       => /\ voice \in ListedFor(in.language)
                          /\ GenderOf(voice) = wanted
                          /\ \A v \in ListedFor(in.language) :
                                GenderOf(v) = wanted
                                   => PositionOf(in.language, voice)
                                         <= PositionOf(in.language, v)

\* an explicit voice of another language is ignored and an unknown style
\* counts as female; a male style picks the second voice of en
C19_StyleDecides ==
    /\ response.op = "get_tts_voice"
    /\ response.input.language = "EN"
    /\ response.input.preference = "es_ES-davefx-medium"
    /\ \/ response.input.voice_style = "MALE" /\ response.output.voice = "en_GB-alan-medium"
       \/ response.input.voice_style = "robot" /\ response.output.voice = "en_US-amy-medium"

\* C20 as stated: a voice is always returned; it is listed for the language
\* when the language is in the catalog, the first listed one when no voice
\* has the gender; and it is the global fallback voice exactly when the
\* language is not in the catalog.
C20_FallbackExactlyWhenAbsent ==
    LET in == response.input
        voice == response.output.voice
    IN  response.op = "get_tts_voice"
            => /\ voice \in AllVoices
               /\ InCatalog(in.language) => voice \in ListedFor(in.language)
               /\ (/\ InCatalog(in.language)
                   /\ in.preference \notin ListedFor(in.language)
                   /\ \A v \in ListedFor(in.language) :
                         GenderOf(v) # WantedGender(in.voice_style))
                     => PositionOf(in.language, voice) = 1
               /\ (voice = DEFAULT_TTS_FALLBACK_VOICE) <=> ~InCatalog(in.language)

\* C20 amended: a voice is always returned; it is listed for the language
\* when the language is in the catalog, the first listed one when no voice
\* has the gender; it is the global fallback voice whenever the language is
\* not in the catalog, and for a language of the catalog only when that
\* voice is listed for the language.
C20_TotalAndListed ==
    LET in == response.input
        voice == response.output.voice
    IN  response.op = "get_tts_voice"
            => /\ voice \in AllVoices
               /\ InCatalog(in.language) => voice \in ListedFor(in.language)
               /\ (/\ InCatalog(in.language)
                   /\ in.preference \notin ListedFor(in.language)
                   /\ \A v \in ListedFor(in.language) :
                         GenderOf(v) # WantedGender(in.voice_style))
                     => PositionOf(in.language, voice) = 1
               /\ ~InCatalog(in.language) => voice = DEFAULT_TTS_FALLBACK_VOICE
               /\ (voice = DEFAULT_TTS_FALLBACK_VOICE /\ InCatalog(in.language))
                     => DEFAULT_TTS_FALLBACK_VOICE \in ListedFor(in.language)

\* the only voice of it is male: a female style gets it all the same
C20_FirstListedWithoutMatch ==
    /\ response.op = "get_tts_voice"
    /\ response.input.language = "it"
    /\ response.input.voice_style = "female"
    /\ response.input.preference = NoValue
    /\ response.output.voice = "it_IT-riccardo-medium"

\* vocabulary of the claims on difficulty and intensity
IsLight(intensity) == intensity \in {"light", "LIGHT"}
IsDeep(intensity) == intensity \in {"deep", "Deep"}

\* C21: for every difficulty, light intensity gives max_tokens strictly below
\* and a temperature not above the standard values of that difficulty, deep
\* gives values not below them; max_tokens lies in [140, 340], temperature
\* in [0.35, 0.72]; top_p does not depend on intensity; a missing or
\* unrecognized intensity gives the standard values.
C21_IntensityOrdersSettings ==
    LET got == response.output.settings
        standard == get_generation_settings(response.input.difficulty, "standard")
        intensity == response.input.teaching_intensity
    IN  response.op = "get_generation_settings"
            => /\ got.max_tokens >= 140 /\ got.max_tokens <= 340
               /\ got.temperature >= 35 /\ got.temperature <= 72
               /\ got.top_p = standard.top_p
               /\ IsLight(intensity)
                     => /\ got.max_tokens < standard.max_tokens
                        /\ got.temperature <= standard.temperature
               /\ IsDeep(intensity)
                     => /\ got.max_tokens >= standard.max_tokens
                        /\ got.temperature >= standard.temperature
               /\ (~IsLight(intensity) /\ ~IsDeep(intensity)) => got = standard

C21_LightBeginner ==
    /\ response.op = "get_generation_settings"
    /\ response.input.difficulty = "beginner"
    /\ response.input.teaching_intensity = "light"
    /\ response.output.settings.max_tokens = 160
    /\ response.output.settings.temperature = 37

\* the difficulty tier a result belongs to: top_p and the speech scale tell
\* the three tiers apart whatever the intensity, the prompt tells beginner
\* from the rest
TierOfTopP(top_p) ==
    CASE top_p = 85 -> "beginner" [] top_p = 90 -> "intermediate" [] OTHER -> "advanced"
TierOfScale(scale) ==
    IF scale >= 137 THEN "beginner" ELSE IF scale >= 112 THEN "intermediate" ELSE "advanced"
PromptIsBeginner(prompt) == prompt.balance_guidance = "Use mostly English explanations"

Alternates(list) ==
    \A i \in 1..Len(list) :
        list[i].role = (IF i % 2 = 1 THEN "user" ELSE "assistant")

\* C22: in every state a session read or another request can observe, under
\* any interleaving of concurrent requests, the history stored for a session
\* id has at most 20 messages, an even number of them, and alternates user,
\* assistant starting with user: the append of a turn and the cut to 20 are
\* never seen half-done.
C22_StoredHistoryWellFormed ==
    \A s \in SessionIds :
        /\ Len(Stored(s)) <= 20
        /\ Len(Stored(s)) % 2 = 0
        /\ Alternates(Stored(s))
        /\ SessionBody(s).messages = Stored(s)

\* a turn has cut the full list while a stream that took the list before the
\* cut is still running
C22_CutWhileStreamRuns ==
    /\ turns["s1"] > BusyTurns
    /\ Len(Stored("s1")) = 20
    /\ \E r \in Slots : /\ InFlight(req[r])
                        /\ req[r].history # NoList
                        /\ req[r].history # conversation_sessions["s1"]

\* the session id has been cleared and nothing was stored under it since:
\* only clear_session removes the key of a session that had turns
ClearedAndEmpty(s) == conversation_sessions[s] = NoList /\ turns[s] >= 1

\* the turn numbers of the messages a read of the session returns
TurnsRead(s) == {SessionBody(s).messages[i].n : i \in 1..Len(SessionBody(s).messages)}

\* C23 as stated: once session id S is cleared, no message stored under S
\* before the clear is returned by a later read of S, also when a spoken
\* request that started on S before the clear completes after it.  Messages
\* are told apart by the number of their turn; the turns numbered up to
\* turns[S] are the ones appended before the clear, so no step taken while
\* S is cleared may leave one of them where a read of S finds it.
C23_ClearedMessagesStayGone ==
    [][\A s \in SessionIds :
          ClearedAndEmpty(s) => \A n \in 1..turns[s] : n \notin TurnsRead(s)']_vars

\* C24 as stated: no spoken turn whose transcript is empty or only
\* whitespace calls the language model or adds messages to a session, on
\* /speak as on /speak-stream: every stored user message has content that is
\* not blank, and a spoken request that heard nothing has not called the
\* language model.
C24_BlankTranscriptAddsNothing ==
    /\ \A s \in SessionIds : \A i \in 1..Len(Stored(s)) :
          Stored(s)[i].role = "user" => ~Blank(Stored(s)[i].content)
    /\ (response.op = "speak" /\ "stt" \in response.calls /\ Blank(response.user_text))
          => "llm" \notin response.calls
    /\ \A r \in Slots :
          (req[r].kind = "speak_stream" /\ req[r].heard /\ Blank(req[r].user_text))
             => "llm" \notin req[r].calls

\* the alphabetic words of a text that are English function words
HintWordsIn(t) == {i \in DOMAIN FindWords(t) : FindWords(t)[i] \in ENGLISH_HINT_WORDS}

\* the label the claim gives to untagged text; wordCount/3 is the integer
\* quotient
LabelOfUntagged(t, target, explanation) ==
    IF /\ target # explanation
       /\ Cardinality(HintWordsIn(t)) >= 2
       /\ Cardinality(HintWordsIn(t)) >= Len(FindWords(t)) \div 3
    THEN explanation
    ELSE target

\* the untagged text the call was made on, when it is one text before a span
\* or a wholly untagged input, and is not blank
UntaggedCall ==
    /\ response.op = "split_speech_segments"
    /\ \/ response.input.parts = <<>> /\ ~Blank(response.input.tail)
       \/ /\ Len(response.input.parts) = 1 /\ response.input.tail = <<>>
          /\ ~Blank(response.input.parts[1].gap)
          /\ ~Blank(response.input.parts[1].content)

UntaggedText ==
    IF response.input.parts = <<>> THEN response.input.tail
    ELSE response.input.parts[1].gap

CleanText(t) ==
    /\ t # <<>>
    /\ t[1] # " " /\ t[Len(t)] # " "
    /\ \A i \in 1..(Len(t) - 1) : ~(t[i] = " " /\ t[i + 1] = " ")

\* C26: every segment segmentation returns has a text that is not empty, has
\* no whitespace at its ends and no run of two or more whitespace
\* characters; a span or gap that is empty after trimming gives no segment
\* and leaves the order of the others as it is; an empty or whitespace-only
\* input gives the empty list.
C26_SegmentsAreClean ==
    /\ response.op \in {"split_speech_segments", "split_raw_text"}
          => /\ \A i \in DOMAIN response.output.segments :
                   CleanText(response.output.segments[i].text)
             /\ Blank(response.input.text) => response.output.segments = <<>>
    /\ response.op = "split_speech_segments"
          => LET pieces == SpansInOrder(response.input.parts, response.input.tail,
                                        response.input.target_language,
                                        response.input.explanation_language)
                 kept == SpokenParts(pieces)
             IN  /\ Len(response.output.segments) = Len(kept)
                 /\ \A i \in DOMAIN kept :
                       SameWords(response.output.segments[i].text, kept[i].text)

\* a span with nothing in it between a span and a tail: two segments, the
\* first span's and the tail's, in that order
C26_EmptySpanDropped ==
    /\ response.op = "split_speech_segments"
    /\ Len(response.input.parts) = 2
    /\ response.input.parts[1].content = <<" ", "h", "i">>
    /\ response.input.parts[1].gap = <<" ", " ">>
    /\ response.input.parts[2].content = <<>>
    /\ response.input.tail = <<"i", " ", " ", "d", "o">>
    /\ Len(response.output.segments) = 2
    /\ response.output.segments[1].text = <<"h", "i">>
    /\ response.output.segments[2].text = <<"i", " ", "d", "o">>

\* ---------------------------------------------------------------------
\* C27: when tts_handler.synthesize_segments returns and k >= 1 segments of
\* the list survive (text left after trimming, samples left after decoding),
\* the buffer it assembles is the audio of the surviving segments in list
\* order with one silence of the fixed length between each two consecutive
\* ones, k - 1 in all, none before the first and none after the last; a
\* discarded segment adds neither audio nor silence
SegmentsCall ==
    /\ response.op = "synthesize_segments"
    /\ ~response.output.raised

Survives(segment, piper) ==
    /\ Strip(segment.text) # <<>>
    /\ piper # "silent"

Survivors(segments, piper) ==
    SelectSeq([i \in DOMAIN segments |-> i],
              LAMBDA i : Survives(segments[i], piper[i]))

C27_SilenceOnlyBetweenSurvivors ==
    SegmentsCall =>
        LET segments == response.input.segments
            piper == response.input.piper
            kept == Survivors(segments, piper)
            k == Len(kept)
            combined == response.output.combined
        IN  k >= 1 =>
               /\ Len(combined) = 2 * k - 1
               /\ \A j \in 1..k :
                      /\ combined[2 * j - 1].kind = "chunk"
                      /\ combined[2 * j - 1].of = kept[j]
                      /\ combined[2 * j - 1].duration =
                            synthesize(Strip(segments[kept[j]].text),
                                       piper[kept[j]]).duration
               /\ \A j \in 1..(k - 1) :
                      /\ combined[2 * j].kind = "pause"
                      /\ combined[2 * j].duration = PauseDuration
               /\ response.output.audio.duration = SumSeq(Durations(combined))

\* a list of two segments that both survive was merged
C27_TwoSurvivors ==
    /\ SegmentsCall
    /\ Len(Survivors(response.input.segments, response.input.piper)) = 2
    /\ Len(response.output.combined) = 3

\* ---------------------------------------------------------------------
\* C28: in every spoken turn the list handed to the language model is the
\* system prompt, then the at most 10 most recent messages stored for the
\* session when the turn builds its context, in stored order, then the text
\* of the turn; the message of the running turn is in the list once, and
\* the list has at most 12 entries
ContextOf(stored, user_text) ==
    LET recent == IF Len(stored) <= 10 THEN stored
                  ELSE [i \in 1..10 |-> stored[Len(stored) - 10 + i]]
    IN  <<[role |-> "system", content |-> SystemPrompt, n |-> 0]>>
        \o [i \in DOMAIN recent |->
               [role |-> recent[i].role, content |-> recent[i].content,
                n |-> recent[i].n]]
        \o <<[role |-> "user", content |-> user_text, n |-> 0]>>

WellBuilt(list, user_text, turn) ==
    /\ Len(list) <= 12
    /\ list[1].role = "system"
    /\ list[Len(list)] = [role |-> "user", content |-> user_text, n |-> 0]
    /\ \A i \in 2..(Len(list) - 1) : list[i].n >= 1 /\ list[i].n # turn

SpeakCallsLlm == response'.op = "speak" /\ "llm" \in response'.calls

StreamBuilds(r) ==
    /\ req[r].pc = "y_transcription"
    /\ req'[r].pc = "y_response_start"

StreamCallsLlm(r) ==
    /\ req[r].kind = "speak_stream"
    /\ req[r].pc = "y_response_start"
    /\ HasGenerateStream

StreamCompletes(r) ==
    /\ req[r].kind = "speak_stream"
    /\ req'[r].pc = "y_complete"
    /\ req[r].pc # "y_complete"

C28_ContextStep ==
    /\ SpeakCallsLlm =>
          /\ response'.llm_messages =
                ContextOf(Stored(ResolveSessionId(response'.asked)),
                          IF response'.status = 200 THEN response'.user_text
                          ELSE response'.llm_messages[Len(response'.llm_messages)].content)
          /\ WellBuilt(response'.llm_messages,
                       response'.llm_messages[Len(response'.llm_messages)].content,
                       response'.wrote)
    /\ \A r \in Slots :
          /\ StreamBuilds(r) =>
                req'[r].messages =
                    ContextOf(Stored(ResolveSessionId(req[r].session_id)),
                              req[r].user_text)
          /\ StreamCallsLlm(r) /\ req'[r] # req[r] =>
                /\ req'[r].llm_messages = req[r].messages
                /\ WellBuilt(req'[r].llm_messages, req[r].user_text, 0)
          /\ StreamCompletes(r) =>
                WellBuilt(req'[r].llm_messages, req[r].user_text, req'[r].wrote)

C28_ContextOfEveryTurn == [][C28_ContextStep]_vars

\* a turn on a session holding more than 10 messages called the language
\* model with 12 entries
C28_FullContext ==
    \/ /\ response.op = "speak" /\ response.status = 200
       /\ Len(response.llm_messages) = 12
    \/ \E r \in Slots :
          /\ req[r].pc = "y_complete"
          /\ Len(req[r].llm_messages) = 12

\* ---------------------------------------------------------------------
\* C30: in every /synthesize request each segment is spoken with the voice
\* resolved for its language, the resolved target voice for a segment in
\* the target language and the resolved explanation voice for a segment in
\* the explanation language, whatever the letter case of the language codes
\* the caller sent
SynthesizeDone == response.op = "synthesize" /\ response.status = 200

SpokenAt(i) == Strip(response.input.segments[i].text) # <<>>

C30_VoiceOfSegmentLanguage ==
    SynthesizeDone =>
        \A i \in DOMAIN response.output.voices :
            SpokenAt(i) =>
               /\ response.input.segments[i].language
                      = LowerWord(response.input.language)
                    => response.output.voices[i]
                          = response.output.selected_voices.target_voice
               /\ response.input.segments[i].language
                      = LowerWord(response.input.explanation_language)
                    => response.output.voices[i]
                          = response.output.selected_voices.explanation_voice

====
